---- MODULE Spec2Model ----
(***************************************************************************)
(* Query estimator of superset-extensions: the severity classifier, the    *)
(* Trino and PostgreSQL EXPLAIN parsers, the engine dispatcher and the     *)
(* estimate REST handler (query_estimator/parsers.py, api.py, types.py);   *)
(* and the editor snippets handlers (editor_snippets/api.py).              *)
(***************************************************************************)
EXTENDS Integers, Sequences, FiniteSets, TLC

VARIABLES
    dedup_given,    \* the list handed to one deduplicate_warnings call
    dedup_result,   \* what the call returned, None before it returns
    args,           \* arguments of one calculate_resource_level call
    level,          \* its return value, "pending" before the call returns
    parser_used,    \* the parser instance in use ("TrinoParser", "PostgresParser")
    parse_input,    \* the explain_output handed to parser.parse
    outcome,        \* what parser.parse gave: None before it has run
    pc,             \* position of one estimate request in the handler
    request,        \* the HTTP request body as the handler reads it
    database,       \* what DatabaseDAO.find_one_or_none returned
    engine,         \* the engine type detect_engine_type returned
    explain_sql,    \* what parser.get_explain_sql returned
    exec_result,    \* what database.execute returned
    exc,            \* the exception caught by the handler's except block
    response,       \* the response the handler returned
    events,         \* the calls made so far, in order
    calls,          \* the frames of the parse calls running on one parser instance
    lists,          \* the list objects those calls created, by identity
    walk,           \* one run of build_tree: its lines, index and call stack
    store,          \* the entries of the key-value store, in order of creation
    reqs,           \* the editor_snippets requests received, each with its position
    saved           \* per user, the snippets of the last save answered 200

parse_vars == <<parser_used, parse_input, outcome>>

estimate_vars == <<pc, request, database, engine, explain_sql, exec_result, exc,
                   response, events>>

dedup_vars == <<dedup_given, dedup_result>>

shared_vars == <<calls, lists>>

snippet_vars == <<store, reqs, saved>>

side_vars == <<shared_vars, walk, snippet_vars>>

vars == <<dedup_vars, args, level, parse_vars, estimate_vars, side_vars>>

----------------------------------------------------------------------------
(* Python values.  An optional value (int | None, float | None) is None or *)
(* Some(v).  A byte count is kept as two limbs, hi * GiB + lo with         *)
(* 0 <= lo < GiB, because 800 GiB does not fit 32-bit integers; the      *)
(* source compares plain Python ints.                                      *)

None == [some |-> FALSE]

Some(x) == [some |-> TRUE, v |-> x]

GiB == 1073741824

Bytes(hi, lo) == [hi |-> hi, lo |-> lo]

\* a > b on byte counts
BytesGT(a, b) == a.hi > b.hi \/ (a.hi = b.hi /\ a.lo > b.lo)

----------------------------------------------------------------------------
(* types.py                                                                *)

ResourceLevel == {"low", "medium", "high", "critical"}

----------------------------------------------------------------------------
(* parsers.py: thresholds                                                  *)

MEMORY_THRESHOLD_CRITICAL == Bytes(800, 0)
MEMORY_THRESHOLD_HIGH == Bytes(200, 0)
MEMORY_THRESHOLD_MEDIUM == Bytes(50, 0)

TIME_THRESHOLD_CRITICAL == 5 * 60 * 1000
TIME_THRESHOLD_HIGH == 2 * 60 * 1000
TIME_THRESHOLD_MEDIUM == 30 * 1000

ROWS_THRESHOLD_CRITICAL == 1000000000
ROWS_THRESHOLD_HIGH == 100000000
ROWS_THRESHOLD_MEDIUM == 10000000

COST_THRESHOLD_CRITICAL == 10000000
COST_THRESHOLD_HIGH == 1000000
COST_THRESHOLD_MEDIUM == 100000

----------------------------------------------------------------------------
(* parsers.py: calculate_resource_level                                    *)

\* mutant: a category that is present but under its thresholds ends the
\* evaluation with LOW instead of falling through to the next category
calculate_resource_level_stop(rows, time_ms, memory_bytes, cost) ==
    IF memory_bytes # None
    THEN IF BytesGT(memory_bytes.v, MEMORY_THRESHOLD_CRITICAL) THEN "critical"
         ELSE IF BytesGT(memory_bytes.v, MEMORY_THRESHOLD_HIGH) THEN "high"
         ELSE IF BytesGT(memory_bytes.v, MEMORY_THRESHOLD_MEDIUM) THEN "medium"
         ELSE "low"
    ELSE IF time_ms # None
    THEN IF time_ms.v > TIME_THRESHOLD_CRITICAL THEN "critical"
         ELSE IF time_ms.v > TIME_THRESHOLD_HIGH THEN "high"
         ELSE IF time_ms.v > TIME_THRESHOLD_MEDIUM THEN "medium"
         ELSE "low"
    ELSE IF rows # None
    THEN IF rows.v > ROWS_THRESHOLD_CRITICAL THEN "critical"
         ELSE IF rows.v > ROWS_THRESHOLD_HIGH THEN "high"
         ELSE IF rows.v > ROWS_THRESHOLD_MEDIUM THEN "medium"
         ELSE "low"
    ELSE IF cost # None
    THEN IF cost.v > COST_THRESHOLD_CRITICAL THEN "critical"
         ELSE IF cost.v > COST_THRESHOLD_HIGH THEN "high"
         ELSE IF cost.v > COST_THRESHOLD_MEDIUM THEN "medium"
         ELSE "low"
    ELSE "low"

\* mutant: rows are examined before memory and time
calculate_resource_level_rows_first(rows, time_ms, memory_bytes, cost) ==
    IF rows # None /\ rows.v > ROWS_THRESHOLD_CRITICAL THEN "critical"
    ELSE IF rows # None /\ rows.v > ROWS_THRESHOLD_HIGH THEN "high"
    ELSE IF rows # None /\ rows.v > ROWS_THRESHOLD_MEDIUM THEN "medium"
    ELSE IF memory_bytes # None /\ BytesGT(memory_bytes.v, MEMORY_THRESHOLD_CRITICAL) THEN "critical"
    ELSE IF memory_bytes # None /\ BytesGT(memory_bytes.v, MEMORY_THRESHOLD_HIGH) THEN "high"
    ELSE IF memory_bytes # None /\ BytesGT(memory_bytes.v, MEMORY_THRESHOLD_MEDIUM) THEN "medium"
    ELSE IF time_ms # None /\ time_ms.v > TIME_THRESHOLD_CRITICAL THEN "critical"
    ELSE IF time_ms # None /\ time_ms.v > TIME_THRESHOLD_HIGH THEN "high"
    ELSE IF time_ms # None /\ time_ms.v > TIME_THRESHOLD_MEDIUM THEN "medium"
    ELSE IF cost # None /\ cost.v > COST_THRESHOLD_CRITICAL THEN "critical"
    ELSE IF cost # None /\ cost.v > COST_THRESHOLD_HIGH THEN "high"
    ELSE IF cost # None /\ cost.v > COST_THRESHOLD_MEDIUM THEN "medium"
    ELSE "low"

\* mutant: the comparisons are >= instead of >
calculate_resource_level_ge(rows, time_ms, memory_bytes, cost) ==
    IF memory_bytes # None /\ ~BytesGT(MEMORY_THRESHOLD_CRITICAL, memory_bytes.v) THEN "critical"
    ELSE IF memory_bytes # None /\ ~BytesGT(MEMORY_THRESHOLD_HIGH, memory_bytes.v) THEN "high"
    ELSE IF memory_bytes # None /\ ~BytesGT(MEMORY_THRESHOLD_MEDIUM, memory_bytes.v) THEN "medium"
    ELSE IF time_ms # None /\ time_ms.v >= TIME_THRESHOLD_CRITICAL THEN "critical"
    ELSE IF time_ms # None /\ time_ms.v >= TIME_THRESHOLD_HIGH THEN "high"
    ELSE IF time_ms # None /\ time_ms.v >= TIME_THRESHOLD_MEDIUM THEN "medium"
    ELSE IF rows # None /\ rows.v >= ROWS_THRESHOLD_CRITICAL THEN "critical"
    ELSE IF rows # None /\ rows.v >= ROWS_THRESHOLD_HIGH THEN "high"
    ELSE IF rows # None /\ rows.v >= ROWS_THRESHOLD_MEDIUM THEN "medium"
    ELSE IF cost # None /\ cost.v >= COST_THRESHOLD_CRITICAL THEN "critical"
    ELSE IF cost # None /\ cost.v >= COST_THRESHOLD_HIGH THEN "high"
    ELSE IF cost # None /\ cost.v >= COST_THRESHOLD_MEDIUM THEN "medium"
    ELSE "low"

\* mutant: the cost category is never examined
calculate_resource_level_no_cost(rows, time_ms, memory_bytes, cost) ==
    IF memory_bytes # None /\ BytesGT(memory_bytes.v, MEMORY_THRESHOLD_CRITICAL) THEN "critical"
    ELSE IF memory_bytes # None /\ BytesGT(memory_bytes.v, MEMORY_THRESHOLD_HIGH) THEN "high"
    ELSE IF memory_bytes # None /\ BytesGT(memory_bytes.v, MEMORY_THRESHOLD_MEDIUM) THEN "medium"
    ELSE IF time_ms # None /\ time_ms.v > TIME_THRESHOLD_CRITICAL THEN "critical"
    ELSE IF time_ms # None /\ time_ms.v > TIME_THRESHOLD_HIGH THEN "high"
    ELSE IF time_ms # None /\ time_ms.v > TIME_THRESHOLD_MEDIUM THEN "medium"
    ELSE IF rows # None /\ rows.v > ROWS_THRESHOLD_CRITICAL THEN "critical"
    ELSE IF rows # None /\ rows.v > ROWS_THRESHOLD_HIGH THEN "high"
    ELSE IF rows # None /\ rows.v > ROWS_THRESHOLD_MEDIUM THEN "medium"
    ELSE "low"

\* Each "if x is not None:" block returns from inside or falls out of the
\* block to the next one; the final return is reached when no block returned.
calculate_resource_level(rows, time_ms, memory_bytes, cost) ==
    IF memory_bytes # None /\ BytesGT(memory_bytes.v, MEMORY_THRESHOLD_CRITICAL) THEN "critical"
    ELSE IF memory_bytes # None /\ BytesGT(memory_bytes.v, MEMORY_THRESHOLD_HIGH) THEN "high"
    ELSE IF memory_bytes # None /\ BytesGT(memory_bytes.v, MEMORY_THRESHOLD_MEDIUM) THEN "medium"
    ELSE IF time_ms # None /\ time_ms.v > TIME_THRESHOLD_CRITICAL THEN "critical"
    ELSE IF time_ms # None /\ time_ms.v > TIME_THRESHOLD_HIGH THEN "high"
    ELSE IF time_ms # None /\ time_ms.v > TIME_THRESHOLD_MEDIUM THEN "medium"
    ELSE IF rows # None /\ rows.v > ROWS_THRESHOLD_CRITICAL THEN "critical"
    ELSE IF rows # None /\ rows.v > ROWS_THRESHOLD_HIGH THEN "high"
    ELSE IF rows # None /\ rows.v > ROWS_THRESHOLD_MEDIUM THEN "medium"
    ELSE IF cost # None /\ cost.v > COST_THRESHOLD_CRITICAL THEN "critical"
    ELSE IF cost # None /\ cost.v > COST_THRESHOLD_HIGH THEN "high"
    ELSE IF cost # None /\ cost.v > COST_THRESHOLD_MEDIUM THEN "medium"
    ELSE "low"

----------------------------------------------------------------------------
(* types.py: EngineType, WarningSeverity, Warning, PlanNode                *)

EngineType == {"trino", "postgres", "unknown"}

WarningSeverity == {"info", "warning", "error", "critical"}

\* A rendered label: the unit of the magnitude bracket the formatter chose
\* and the value it renders in that unit ("N/A" for an absent value).
Label(unit, of) == [unit |-> unit, of |-> of]

NA == [unit |-> "N/A"]

\* Warning(severity, title, description, recommendation, affected_tables);
\* a description is its fixed text and the label interpolated into it.
Warning(severity, title, text, arg, recommendation, affected_tables) ==
    [severity |-> severity, title |-> title,
     description |-> [text |-> text, arg |-> arg],
     recommendation |-> recommendation, affected_tables |-> affected_tables]

\* details of a PlanNode: the keys the parsers may set
NoDetails == [rows |-> None, table |-> None, joinFilter |-> None]

PlanNode(node_type, rows, cost, details, children) ==
    [node_type |-> node_type, rows |-> rows, cost |-> cost,
     details |-> details, children |-> children]

----------------------------------------------------------------------------
(* parsers.py: formatters (the bracket each value falls in)                *)

format_bytes(bytes_val) ==
    IF bytes_val = None THEN NA
    ELSE LET b == bytes_val.v
         IN  IF b.hi = 0 /\ b.lo < 1024 THEN Label("B", b)
             ELSE IF b.hi = 0 /\ b.lo < 1024 * 1024 THEN Label("KB", b)
             ELSE IF b.hi = 0 THEN Label("MB", b)
             ELSE IF b.hi < 1024 THEN Label("GB", b)
             ELSE Label("TB", b)

\* mutant: "if not rows" in place of "if rows is None"
format_rows_falsy(rows) ==
    IF rows = None \/ rows.v = 0 THEN NA
    ELSE IF rows.v < 1000 THEN Label("", rows.v)
    ELSE IF rows.v < 1000000 THEN Label("K", rows.v)
    ELSE IF rows.v < 1000000000 THEN Label("M", rows.v)
    ELSE Label("B", rows.v)

format_rows(rows) ==
    IF rows = None THEN NA
    ELSE IF rows.v < 1000 THEN Label("", rows.v)
    ELSE IF rows.v < 1000000 THEN Label("K", rows.v)
    ELSE IF rows.v < 1000000000 THEN Label("M", rows.v)
    ELSE Label("B", rows.v)

format_cost(cost) ==
    IF cost = None THEN NA
    ELSE IF cost.v < 1000 THEN Label("", cost.v)
    ELSE IF cost.v < 1000000 THEN Label("K", cost.v)
    ELSE Label("M", cost.v)

----------------------------------------------------------------------------
(* parsers.py: deduplicate_warnings                                        *)

\* a title with its letters in one case
FoldCase(title) == IF title = "scan" THEN "Scan" ELSE title

RECURSIVE deduplicate_from_fold_case(_, _, _)
\* mutant: titles are compared without regard to case
deduplicate_from_fold_case(warnings, i, seen) ==
    IF i > Len(warnings) THEN <<>>
    ELSE IF FoldCase(warnings[i].title) \notin seen
         THEN <<warnings[i]>>
                  \o deduplicate_from_fold_case(warnings, i + 1,
                                                seen \cup {FoldCase(warnings[i].title)})
         ELSE deduplicate_from_fold_case(warnings, i + 1, seen)

RECURSIVE deduplicate_from(_, _, _)
\* the loop of deduplicate_warnings from position i, seen_titles = seen
deduplicate_from(warnings, i, seen) ==
    IF i > Len(warnings) THEN <<>>
    ELSE IF warnings[i].title \notin seen
         THEN <<warnings[i]>> \o deduplicate_from(warnings, i + 1, seen \cup {warnings[i].title})
         ELSE deduplicate_from(warnings, i + 1, seen)

deduplicate_warnings(warnings) == deduplicate_from(warnings, 1, {})

----------------------------------------------------------------------------
(* Plan text.  A Python str holding a text plan is the sequence of its     *)
(* lines; the empty str is the empty sequence.  A line is blank            *)
(* (whitespace only) or has leading whitespace of width indent followed by *)
(* an operator name (node, "" when the line does not start with a letter)  *)
(* and the annotations the parser's regular expressions look for:          *)
(*   rows   rows=<digits,commas>  : "int" with its value, or "bad" when    *)
(*          the matched text holds no digit (int("") raises ValueError)    *)
(*   mem    Memory=<digits.dots><unit> : "num" with value and unit, or     *)
(*          "bad" when the matched text is no number (float raises)        *)
(*   scan   "table" for TableScan[... table=<id>], "bare" for a TableScan  *)
(*          without a table= part                                          *)
(*   constraint  a filterPredicate or constraint token                     *)
(*   cross  a CrossJoin token                                              *)

NoTok == [kind |-> "none", n |-> 0, unit |-> ""]

IntTok(n) == [kind |-> "int", n |-> n, unit |-> ""]

BadTok == [kind |-> "bad", n |-> 0, unit |-> ""]

MemTok(n, unit) == [kind |-> "num", n |-> n, unit |-> unit]

NoScan == [kind |-> "none", table |-> ""]

TableScan(table) == [kind |-> "table", table |-> table]

BareScan == [kind |-> "bare", table |-> ""]

Line(indent, node, rows, mem, scan, constraint, cross) ==
    [blank |-> FALSE, indent |-> indent, node |-> node, rows |-> rows, mem |-> mem,
     scan |-> scan, constraint |-> constraint, cross |-> cross]

BlankLine ==
    [blank |-> TRUE, indent |-> 0, node |-> "", rows |-> NoTok, mem |-> NoTok,
     scan |-> NoScan, constraint |-> FALSE, cross |-> FALSE]

\* plan_str.strip().split("\n"): leading and trailing whitespace (blank
\* lines, and the indentation of the first remaining line) is removed; a
\* string with nothing left splits into one empty line.
StripSplit(plan_str) ==
    LET nb == {i \in 1..Len(plan_str) : ~plan_str[i].blank}
    IN  IF nb = {} THEN <<BlankLine>>
        ELSE LET a == CHOOSE i \in nb : \A j \in nb : i <= j
                 b == CHOOSE i \in nb : \A j \in nb : j <= i
             IN  [i \in 1..(b - a + 1) |->
                     IF i = 1 THEN [plan_str[a] EXCEPT !.indent = 0]
                     ELSE plan_str[a + i - 1]]

\* re.search over the whole text: the first line carrying the annotation
FirstOf(hit) == IF hit = {} THEN 0 ELSE CHOOSE i \in hit : \A j \in hit : i <= j

HasMem(line) == line.mem.kind # "none"

HasRows(line) == line.rows.kind # "none"

FirstMem(plan_str) == FirstOf({i \in 1..Len(plan_str) : HasMem(plan_str[i])})

FirstRows(plan_str) == FirstOf({i \in 1..Len(plan_str) : HasRows(plan_str[i])})

\* int(value * multipliers[unit]) for a whole value
ToBytes(n, unit) ==
    CASE unit = "B" -> Bytes(n \div GiB, n % GiB)
      [] unit = "KB" -> Bytes(n \div (1024 * 1024), (n % (1024 * 1024)) * 1024)
      [] unit = "MB" -> Bytes(n \div 1024, (n % 1024) * 1024 * 1024)
      [] unit = "GB" -> Bytes(n, 0)
      [] unit = "TB" -> Bytes(n * 1024, 0)

RECURSIVE SelectTables(_, _)
\* re.findall(r"TableScan\[.*?table\s*=\s*(\S+)", plan_str), from line i
SelectTables(plan_str, i) ==
    IF i > Len(plan_str) THEN <<>>
    ELSE IF plan_str[i].scan.kind = "table"
         THEN <<plan_str[i].scan.table>> \o SelectTables(plan_str, i + 1)
         ELSE SelectTables(plan_str, i + 1)

\* table_matches[:3]
Prefix(seq, n) == IF Len(seq) <= n THEN seq ELSE SubSeq(seq, 1, n)

----------------------------------------------------------------------------
(* The object handed to parse(explain_output, raw_plan).  Its shape is how *)
(* the rows of the EXPLAIN result are laid out; its payload is the cell    *)
(* (or the whole object) that carries the plan:                            *)
(*   "str"              explain_output is the payload, a str               *)
(*   "list_str"         [payload], payload a str                           *)
(*   "rows_plan"        [{"Plan": payload}]                                *)
(*   "rows_QUERY_PLAN"  [{"QUERY PLAN": payload}]                          *)
(*   "rows_Query_Plan"  [{"Query Plan": payload}]                          *)
(*   "rows_other"       [{<another column>: payload}]                      *)
(*   "empty_list"       []                                                 *)
(*   "other"            the payload itself, an object that is no str       *)
(* A payload is a str of plan text ("text", its lines), a str holding a    *)
(* JSON document ("jsontext", doc) or the object a JSON document decodes   *)
(* to ("obj", doc).  A JSON document is one of                             *)
(*   "scalar"         a number, null or string                             *)
(*   "dict"           an object, not a list                                *)
(*   "empty_list"     []                                                   *)
(*   "list_scalar"    a list whose first item is no object                 *)
(*   "list_no_plan"   a list whose first item is an object without "Plan"  *)
(*   "plan_not_dict"  [{"Plan": <no object>}]                              *)
(*   "plan"           [{"Plan": plan}], plan a plan node                   *)

\* A plan node of the PostgreSQL JSON: "Node Type", "Relation Name" and
\* "Join Filter" are optional strings, "Plan Rows" and "Total Cost" are
\* absent ("none"), a number ("int") or a non-numeric string ("bad"),
\* "Plans" is the list of child nodes (empty when the key is missing).
PgNode(node_type, plan_rows, total_cost, relation, join_filter, plans) ==
    [node_type |-> node_type, plan_rows |-> plan_rows, total_cost |-> total_cost,
     relation |-> relation, join_filter |-> join_filter, plans |-> plans]

EmptyNode == PgNode(None, NoTok, NoTok, None, None, <<>>)

Doc(kind, plan) == [kind |-> kind, plan |-> plan]

TextPayload(lines) == [kind |-> "text", lines |-> lines, doc |-> Doc("scalar", EmptyNode)]

JsonTextPayload(doc) == [kind |-> "jsontext", lines |-> <<>>, doc |-> doc]

ObjPayload(doc) == [kind |-> "obj", lines |-> <<>>, doc |-> doc]

ExplainOutput(shape, payload) == [shape |-> shape, payload |-> payload]

\* a line that starts with a bracket or quote and holds none of the
\* annotations: the text of a rendered list, dict or JSON document
BracketLine == Line(0, "", NoTok, NoTok, NoScan, FALSE, FALSE)

\* str(payload)
StrOf(payload) == IF payload.kind = "text" THEN payload.lines ELSE <<BracketLine>>

----------------------------------------------------------------------------
(* parsers.py: TrinoParser                                                 *)

TrinoParser__extract_plan_text(explain_output) ==
    IF explain_output.shape = "empty_list" THEN <<BracketLine>>
    ELSE StrOf(explain_output.payload)

\* mutant: the cross join check is an elif of the table scan check
TrinoParser__parse_trino_plan_cross_elif(plan_str, warnings) ==
    LET mi == FirstMem(plan_str)
        ri == FirstRows(plan_str)
        table_matches == SelectTables(plan_str, 1)
        has_scan == \E i \in 1..Len(plan_str) : plan_str[i].scan.kind # "none"
        scan ==
            IF /\ has_scan
               /\ table_matches # <<>>
               /\ ~\E i \in 1..Len(plan_str) : plan_str[i].constraint
            THEN <<Warning("warning", "Full Table Scan",
                           "No filter pushdown detected on table scan.", NA,
                           "Add WHERE clause on partition column.",
                           Prefix(table_matches, 3))>>
            ELSE <<>>
        cross ==
            IF ~has_scan /\ \E i \in 1..Len(plan_str) : plan_str[i].cross
            THEN <<Warning("critical", "Cartesian Join",
                           "Cross join detected. This produces a cartesian product.", NA,
                           "Add join conditions to reduce row explosion.", <<>>)>>
            ELSE <<>>
    IN  IF (mi # 0 /\ plan_str[mi].mem.kind = "bad") \/ (ri # 0 /\ plan_str[ri].rows.kind = "bad")
        THEN [raised |-> TRUE, memory_bytes |-> None, rows |-> None, warnings |-> warnings]
        ELSE [raised |-> FALSE,
              memory_bytes |-> IF mi = 0 THEN None
                               ELSE Some(ToBytes(plan_str[mi].mem.n, plan_str[mi].mem.unit)),
              rows |-> IF ri = 0 THEN None ELSE Some(plan_str[ri].rows.n),
              warnings |-> warnings \o scan \o cross]

\* mutant: every matched table is listed
TrinoParser__parse_trino_plan_no_cap(plan_str, warnings) ==
    LET mi == FirstMem(plan_str)
        ri == FirstRows(plan_str)
        table_matches == SelectTables(plan_str, 1)
        scan ==
            IF /\ \E i \in 1..Len(plan_str) : plan_str[i].scan.kind # "none"
               /\ table_matches # <<>>
               /\ ~\E i \in 1..Len(plan_str) : plan_str[i].constraint
            THEN <<Warning("warning", "Full Table Scan",
                           "No filter pushdown detected on table scan.", NA,
                           "Add WHERE clause on partition column.",
                           table_matches)>>
            ELSE <<>>
        cross ==
            IF \E i \in 1..Len(plan_str) : plan_str[i].cross
            THEN <<Warning("critical", "Cartesian Join",
                           "Cross join detected. This produces a cartesian product.", NA,
                           "Add join conditions to reduce row explosion.", <<>>)>>
            ELSE <<>>
    IN  IF (mi # 0 /\ plan_str[mi].mem.kind = "bad") \/ (ri # 0 /\ plan_str[ri].rows.kind = "bad")
        THEN [raised |-> TRUE, memory_bytes |-> None, rows |-> None, warnings |-> warnings]
        ELSE [raised |-> FALSE,
              memory_bytes |-> IF mi = 0 THEN None
                               ELSE Some(ToBytes(plan_str[mi].mem.n, plan_str[mi].mem.unit)),
              rows |-> IF ri = 0 THEN None ELSE Some(plan_str[ri].rows.n),
              warnings |-> warnings \o scan \o cross]

\* The two conversions come first and raise before any warning is appended.
TrinoParser__parse_trino_plan(plan_str, warnings) ==
    LET mi == FirstMem(plan_str)
        ri == FirstRows(plan_str)
        table_matches == SelectTables(plan_str, 1)
        scan ==
            IF /\ \E i \in 1..Len(plan_str) : plan_str[i].scan.kind # "none"
               /\ table_matches # <<>>
               /\ ~\E i \in 1..Len(plan_str) : plan_str[i].constraint
            THEN <<Warning("warning", "Full Table Scan",
                           "No filter pushdown detected on table scan.", NA,
                           "Add WHERE clause on partition column.",
                           Prefix(table_matches, 3))>>
            ELSE <<>>
        cross ==
            IF \E i \in 1..Len(plan_str) : plan_str[i].cross
            THEN <<Warning("critical", "Cartesian Join",
                           "Cross join detected. This produces a cartesian product.", NA,
                           "Add join conditions to reduce row explosion.", <<>>)>>
            ELSE <<>>
    IN  IF (mi # 0 /\ plan_str[mi].mem.kind = "bad") \/ (ri # 0 /\ plan_str[ri].rows.kind = "bad")
        THEN [raised |-> TRUE, memory_bytes |-> None, rows |-> None, warnings |-> warnings]
        ELSE [raised |-> FALSE,
              memory_bytes |-> IF mi = 0 THEN None
                               ELSE Some(ToBytes(plan_str[mi].mem.n, plan_str[mi].mem.unit)),
              rows |-> IF ri = 0 THEN None ELSE Some(plan_str[ri].rows.n),
              warnings |-> warnings \o scan \o cross]

\* get_indent
get_indent(line) == line.indent

\* parse_node_type: raises when the line's rows annotation holds no digit
parse_node_type(line) ==
    [raised |-> line.rows.kind = "bad",
     node_type |-> IF line.node = "" THEN "Unknown" ELSE line.node,
     details |-> IF line.rows.kind = "int"
                 THEN [NoDetails EXCEPT !.rows = Some(line.rows.n)]
                 ELSE NoDetails]

RECURSIVE build_tree_loop(_, _, _, _, _)
\* The while loop of build_tree(lines, start_idx, parent_indent) with the
\* loop variables idx and nodes; indices are 0-based as in the source.
build_tree_loop(lines, start_idx, parent_indent, idx, nodes) ==
    IF idx >= Len(lines) THEN [raised |-> FALSE, nodes |-> nodes, idx |-> idx]
    ELSE LET line == lines[idx + 1]
         IN  IF line.blank
             THEN build_tree_loop(lines, start_idx, parent_indent, idx + 1, nodes)
             ELSE LET indent == get_indent(line)
                  IN  IF indent <= parent_indent /\ idx > start_idx
                      THEN [raised |-> FALSE, nodes |-> nodes, idx |-> idx]
                      ELSE LET parsed == parse_node_type(line)
                               next_indent ==
                                   IF ~lines[idx + 2].blank THEN get_indent(lines[idx + 2])
                                   ELSE indent
                               descend == idx + 1 < Len(lines) /\ next_indent > indent
                               sub == IF descend
                                      THEN build_tree_loop(lines, idx + 1, indent, idx + 1, <<>>)
                                      ELSE [raised |-> FALSE, nodes |-> <<>>, idx |-> idx + 1]
                               node == PlanNode(parsed.node_type, parsed.details.rows, None,
                                                parsed.details, sub.nodes)
                           IN  IF parsed.raised \/ sub.raised
                               THEN [raised |-> TRUE, nodes |-> <<>>, idx |-> idx]
                               ELSE build_tree_loop(lines, start_idx, parent_indent,
                                                    sub.idx, Append(nodes, node))

build_tree(lines, start_idx, parent_indent) ==
    build_tree_loop(lines, start_idx, parent_indent, start_idx, <<>>)

\* mutant: the top-level nodes are always wrapped
TrinoParser__build_plan_tree_always_wrap(plan_str) ==
    LET lines == StripSplit(plan_str)
        built == build_tree(lines, 0, -1)
    IN  IF built.raised THEN [raised |-> TRUE, tree |-> None]
        ELSE IF built.nodes = <<>> THEN [raised |-> FALSE, tree |-> None]
        ELSE [raised |-> FALSE,
              tree |-> Some(PlanNode("Query", None, None, NoDetails, built.nodes))]

\* returns [raised, tree]: tree is None, the only top-level node, or a
\* "Query" node over the top-level nodes
TrinoParser__build_plan_tree(plan_str) ==
    LET lines == StripSplit(plan_str)
        built == build_tree(lines, 0, -1)
    IN  IF built.raised THEN [raised |-> TRUE, tree |-> None]
        ELSE IF built.nodes = <<>> THEN [raised |-> FALSE, tree |-> None]
        ELSE IF Len(built.nodes) = 1 THEN [raised |-> FALSE, tree |-> Some(built.nodes[1])]
        ELSE [raised |-> FALSE,
              tree |-> Some(PlanNode("Query", None, None, NoDetails, built.nodes))]

\* a value that is not None and not zero ("if memory_bytes and ...")
TruthyBytes(m) == m # None /\ m.v # Bytes(0, 0)

TruthyNum(x) == x # None /\ x.v # 0

\* mutant: rows equal to a threshold warn too
TrinoParser__generate_threshold_warnings_ge(memory_bytes, rows) ==
    (IF TruthyBytes(memory_bytes) /\ BytesGT(memory_bytes.v, MEMORY_THRESHOLD_CRITICAL)
     THEN <<Warning("critical", "Excessive Memory Estimate", "Estimated memory usage: {}.",
                    format_bytes(memory_bytes),
                    "Add filters to reduce data volume or break into smaller queries.", <<>>)>>
     ELSE IF TruthyBytes(memory_bytes) /\ BytesGT(memory_bytes.v, MEMORY_THRESHOLD_HIGH)
     THEN <<Warning("warning", "High Memory Estimate", "Estimated memory usage: {}.",
                    format_bytes(memory_bytes),
                    "Consider optimizing to reduce memory consumption.", <<>>)>>
     ELSE <<>>)
    \o
    (IF TruthyNum(rows) /\ rows.v >= ROWS_THRESHOLD_CRITICAL
     THEN <<Warning("critical", "Very Large Result Set", "Planner estimates {} rows.",
                    format_rows(rows),
                    "Add WHERE clause or LIMIT to reduce result size.", <<>>)>>
     ELSE IF TruthyNum(rows) /\ rows.v >= ROWS_THRESHOLD_HIGH
     THEN <<Warning("warning", "Large Result Set", "Planner estimates {} rows.",
                    format_rows(rows), "Consider if all rows are needed.", <<>>)>>
     ELSE <<>>)

TrinoParser__generate_threshold_warnings(memory_bytes, rows) ==
    (IF TruthyBytes(memory_bytes) /\ BytesGT(memory_bytes.v, MEMORY_THRESHOLD_CRITICAL)
     THEN <<Warning("critical", "Excessive Memory Estimate", "Estimated memory usage: {}.",
                    format_bytes(memory_bytes),
                    "Add filters to reduce data volume or break into smaller queries.", <<>>)>>
     ELSE IF TruthyBytes(memory_bytes) /\ BytesGT(memory_bytes.v, MEMORY_THRESHOLD_HIGH)
     THEN <<Warning("warning", "High Memory Estimate", "Estimated memory usage: {}.",
                    format_bytes(memory_bytes),
                    "Consider optimizing to reduce memory consumption.", <<>>)>>
     ELSE <<>>)
    \o
    (IF TruthyNum(rows) /\ rows.v > ROWS_THRESHOLD_CRITICAL
     THEN <<Warning("critical", "Very Large Result Set", "Planner estimates {} rows.",
                    format_rows(rows),
                    "Add WHERE clause or LIMIT to reduce result size.", <<>>)>>
     ELSE IF TruthyNum(rows) /\ rows.v > ROWS_THRESHOLD_HIGH
     THEN <<Warning("warning", "Large Result Set", "Planner estimates {} rows.",
                    format_rows(rows), "Consider if all rows are needed.", <<>>)>>
     ELSE <<>>)

EstimationMetrics(memory_bytes, memory_label, rows_estimated, rows_label, cost, cost_label) ==
    [execution_time_ms |-> None, execution_time_label |-> NA,
     planning_time_ms |-> None, planning_time_label |-> NA,
     memory_bytes |-> memory_bytes, memory_label |-> memory_label,
     rows_estimated |-> rows_estimated, rows_label |-> rows_label,
     cost |-> cost, cost_label |-> cost_label]

EstimationResult(resource_level, metrics, warnings, raw_plan, plan_tree, engine_type) ==
    [resource_level |-> resource_level, metrics |-> metrics, warnings |-> warnings,
     raw_plan |-> raw_plan, plan_tree |-> plan_tree, engine_type |-> engine_type]

\* What a call of parse gives: raised (an exception left parse), logged
\* (the except block ran and logged a failure), result (Some(result) when
\* parse returned).
Returned(logged, result) == [raised |-> FALSE, logged |-> logged, result |-> Some(result)]

Raised(logged) == [raised |-> TRUE, logged |-> logged, result |-> None]

\* The try block of TrinoParser.parse: the locals after it, and whether the
\* except block ran.  The tuple assignment of _parse_trino_plan happens only
\* when it returns; _build_plan_tree runs after it.
TrinoParser_try(explain_output) ==
    LET plan_str == TrinoParser__extract_plan_text(explain_output)
        parsed == TrinoParser__parse_trino_plan(plan_str, <<>>)
        built == TrinoParser__build_plan_tree(plan_str)
    IN  IF plan_str = <<>>
        THEN [logged |-> FALSE, memory_bytes |-> None, rows |-> None,
              warnings |-> <<>>, plan_tree |-> None]
        ELSE IF parsed.raised
        THEN [logged |-> TRUE, memory_bytes |-> None, rows |-> None,
              warnings |-> parsed.warnings, plan_tree |-> None]
        ELSE [logged |-> built.raised, memory_bytes |-> parsed.memory_bytes,
              rows |-> parsed.rows, warnings |-> parsed.warnings,
              plan_tree |-> built.tree]

TrinoParser_parse(explain_output, raw_plan) ==
    LET t == TrinoParser_try(explain_output)
        metrics == EstimationMetrics(t.memory_bytes, format_bytes(t.memory_bytes),
                                     t.rows, format_rows(t.rows), None, NA)
        warnings == deduplicate_warnings(
                        t.warnings \o TrinoParser__generate_threshold_warnings(t.memory_bytes, t.rows))
        resource_level == calculate_resource_level(t.rows, None, t.memory_bytes, None)
    IN  Returned(t.logged,
                 EstimationResult(resource_level, metrics, warnings, raw_plan,
                                  t.plan_tree, "trino"))

----------------------------------------------------------------------------
(* parsers.py: PostgresParser                                              *)

IsListDoc(doc) == doc.kind \in {"empty_list", "list_scalar", "list_no_plan", "plan_not_dict", "plan"}

\* json.loads(payload) of a str payload: plan text is no JSON and raises
JsonLoads(payload) ==
    IF payload.kind = "jsontext" THEN [raised |-> FALSE, json |-> Some(payload.doc)]
    ELSE [raised |-> TRUE, json |-> None]

\* returns [raised, json]: json is None or Some(document)
PostgresParser__extract_plan_json(explain_output) ==
    LET payload == explain_output.payload
        shape == explain_output.shape
        nothing == [raised |-> FALSE, json |-> None]
    IN  CASE shape = "rows_plan" ->
                 \* "Plan" in first_item: [first_item]
                 [raised |-> FALSE,
                  json |-> Some(IF payload.kind = "obj" /\ payload.doc.kind = "plan"
                                THEN payload.doc
                                ELSE Doc("plan_not_dict", EmptyNode))]
          [] shape = "rows_QUERY_PLAN" ->
                 IF payload.kind = "obj" THEN [raised |-> FALSE, json |-> Some(payload.doc)]
                 ELSE JsonLoads(payload)
          [] shape \in {"rows_Query_Plan", "rows_other"} ->
                 \* a str value starting with "[" is decoded, a decoding
                 \* error is passed over; a list value is returned
                 IF payload.kind \in {"jsontext", "obj"} /\ IsListDoc(payload.doc)
                 THEN [raised |-> FALSE, json |-> Some(payload.doc)]
                 ELSE nothing
          [] shape \in {"list_str", "str"} -> JsonLoads(payload)
          [] OTHER -> nothing

\* the scan node types of _parse_plan_node
scan_types == {"Seq Scan", "Index Scan", "Index Only Scan", "Bitmap Heap Scan"}

\* node.get(key, default) of an optional string
GetOr(opt, default) == IF opt = None THEN default ELSE opt.v

RECURSIVE PostgresParser__parse_plan_node(_, _)
RECURSIVE parse_plans_from(_, _, _, _)
RECURSIVE PostgresParser__parse_plan_node_all_rows(_, _)
RECURSIVE PostgresParser__parse_plan_node_seq_ge(_, _)
RECURSIVE PostgresParser__parse_plan_node_filter_key(_, _)

\* mutant: a Join Filter key with an empty value counts as a join filter
PostgresParser__parse_plan_node_filter_key(node, warnings) ==
    LET node_type == IF node.node_type = None THEN "" ELSE node.node_type.v
        plan_rows == IF node.plan_rows.kind = "none" THEN 0 ELSE node.plan_rows.n
        is_scan == node_type \in {"Seq Scan", "Index Scan", "Index Only Scan", "Bitmap Heap Scan"}
        relation == IF node.relation = None THEN "unknown" ELSE node.relation.v
        seq == IF node_type = "Seq Scan" /\ plan_rows > 100000
               THEN <<Warning("warning", "Sequential Scan", "Sequential scan on '{}' (~{} rows).",
                              format_rows(Some(plan_rows)),
                              "Consider adding an index or WHERE clause.", <<relation>>)>>
               ELSE <<>>
        loop == IF node_type = "Nested Loop" /\ node.join_filter = None
                THEN <<Warning("critical", "Cartesian Product",
                               "Nested loop without join condition detected.", NA,
                               "Add JOIN conditions to avoid cartesian product.", <<>>)>>
                ELSE <<>>
    IN  IF is_scan /\ node.plan_rows.kind = "bad"
        THEN [raised |-> TRUE, rows_scanned |-> 0, warnings |-> warnings]
        ELSE parse_plans_from(node.plans, 1, IF is_scan THEN plan_rows ELSE 0,
                              warnings \o seq \o loop)

\* mutant: a Seq Scan of exactly 100,000 rows warns too
PostgresParser__parse_plan_node_seq_ge(node, warnings) ==
    LET node_type == IF node.node_type = None THEN "" ELSE node.node_type.v
        plan_rows == IF node.plan_rows.kind = "none" THEN 0 ELSE node.plan_rows.n
        is_scan == node_type \in {"Seq Scan", "Index Scan", "Index Only Scan", "Bitmap Heap Scan"}
        relation == IF node.relation = None THEN "unknown" ELSE node.relation.v
        seq == IF node_type = "Seq Scan" /\ plan_rows >= 100000
               THEN <<Warning("warning", "Sequential Scan", "Sequential scan on '{}' (~{} rows).",
                              format_rows(Some(plan_rows)),
                              "Consider adding an index or WHERE clause.", <<relation>>)>>
               ELSE <<>>
        join_filter == IF node.join_filter = None THEN "" ELSE node.join_filter.v
        loop == IF node_type = "Nested Loop" /\ join_filter = ""
                THEN <<Warning("critical", "Cartesian Product",
                               "Nested loop without join condition detected.", NA,
                               "Add JOIN conditions to avoid cartesian product.", <<>>)>>
                ELSE <<>>
    IN  IF is_scan /\ node.plan_rows.kind = "bad"
        THEN [raised |-> TRUE, rows_scanned |-> 0, warnings |-> warnings]
        ELSE parse_plans_from(node.plans, 1, IF is_scan THEN plan_rows ELSE 0,
                              warnings \o seq \o loop)

\* mutant: the Plan Rows of every node are counted, whatever its type
PostgresParser__parse_plan_node_all_rows(node, warnings) ==
    LET plan_rows == IF node.plan_rows.kind = "none" THEN 0 ELSE node.plan_rows.n
    IN  IF node.plan_rows.kind = "bad"
        THEN [raised |-> TRUE, rows_scanned |-> 0, warnings |-> warnings]
        ELSE parse_plans_from(node.plans, 1, plan_rows, warnings)

\* The loop over node["Plans"] from child i with the running rows_scanned
\* and the shared warnings list; it ends at the first child that raises.
parse_plans_from(plans, i, rows_scanned, warnings) ==
    IF i > Len(plans) THEN [raised |-> FALSE, rows_scanned |-> rows_scanned, warnings |-> warnings]
    ELSE LET child == PostgresParser__parse_plan_node(plans[i], warnings)
         IN  IF child.raised THEN child
             ELSE parse_plans_from(plans, i + 1, rows_scanned + child.rows_scanned,
                                   child.warnings)

\* returns [raised, rows_scanned, warnings]; warnings is the caller's list,
\* appended to in place, so what was appended before an exception stays.
PostgresParser__parse_plan_node(node, warnings) ==
    LET node_type == GetOr(node.node_type, "")
        plan_rows == IF node.plan_rows.kind = "none" THEN 0 ELSE node.plan_rows.n
        is_scan == node_type \in scan_types
        relation == GetOr(node.relation, "unknown")
        seq == IF is_scan /\ node_type = "Seq Scan" /\ plan_rows > 100000
               THEN <<Warning("warning", "Sequential Scan", "Sequential scan on '{}' (~{} rows).",
                              format_rows(Some(plan_rows)),
                              "Consider adding an index or WHERE clause.", <<relation>>)>>
               ELSE <<>>
        loop == IF node_type = "Nested Loop" /\ GetOr(node.join_filter, "") = ""
                THEN <<Warning("critical", "Cartesian Product",
                               "Nested loop without join condition detected.", NA,
                               "Add JOIN conditions to avoid cartesian product.", <<>>)>>
                ELSE <<>>
    IN  IF is_scan /\ node.plan_rows.kind = "bad"
        THEN [raised |-> TRUE, rows_scanned |-> 0, warnings |-> warnings]
        ELSE parse_plans_from(node.plans, 1, IF is_scan THEN plan_rows ELSE 0,
                              warnings \o seq \o loop)

RECURSIVE PostgresParser__build_plan_tree(_)
\* returns [raised, node]; int(rows) and float(cost) raise on a
\* non-numeric string
PostgresParser__build_plan_tree(node) ==
    LET children == [i \in 1..Len(node.plans) |-> PostgresParser__build_plan_tree(node.plans[i])]
        details == [rows |-> None, table |-> node.relation, joinFilter |-> node.join_filter]
    IN  [raised |-> \/ node.plan_rows.kind = "bad"
                    \/ node.total_cost.kind = "bad"
                    \/ \E i \in 1..Len(node.plans) : children[i].raised,
         node |-> PlanNode(GetOr(node.node_type, "Unknown"),
                           IF node.plan_rows.kind = "int" THEN Some(node.plan_rows.n) ELSE None,
                           IF node.total_cost.kind = "int" THEN Some(node.total_cost.n) ELSE None,
                           details,
                           [i \in 1..Len(node.plans) |-> children[i].node])]

PostgresParser__generate_threshold_warnings(rows, cost) ==
    (IF TruthyNum(rows) /\ rows.v > ROWS_THRESHOLD_CRITICAL
     THEN <<Warning("critical", "Very Large Result Set", "Planner estimates {} rows.",
                    format_rows(rows),
                    "Add WHERE clause or LIMIT to reduce result size.", <<>>)>>
     ELSE IF TruthyNum(rows) /\ rows.v > ROWS_THRESHOLD_HIGH
     THEN <<Warning("warning", "Large Result Set", "Planner estimates {} rows.",
                    format_rows(rows), "Consider if all rows are needed.", <<>>)>>
     ELSE <<>>)
    \o
    (IF TruthyNum(cost) /\ cost.v > COST_THRESHOLD_CRITICAL
     THEN <<Warning("critical", "Very High Cost Query", "Query has cost of {} units.",
                    format_cost(cost),
                    "Review query plan for optimization opportunities.", <<>>)>>
     ELSE IF TruthyNum(cost) /\ cost.v > COST_THRESHOLD_HIGH
     THEN <<Warning("warning", "High Cost Query", "Query has cost of {} units.",
                    format_cost(cost), "Consider adding indexes or filters.", <<>>)>>
     ELSE <<>>)

\* The try block of PostgresParser.parse: the locals after it and whether
\* the except block ran.  total_cost is assigned before _parse_plan_node
\* runs and keeps the raw value of the root's "Total Cost"; rows_scanned and
\* warnings are rebound only when _parse_plan_node returns, but the list it
\* appends to is the local warnings itself.
PostgresParser_try(explain_output) ==
    LET extracted == PostgresParser__extract_plan_json(explain_output)
        untouched == [logged |-> FALSE, rows_scanned |-> 0, total_cost |-> NoTok,
                      warnings |-> <<>>, plan_tree |-> None]
        plan == extracted.json.v.plan
        parsed == PostgresParser__parse_plan_node(plan, <<>>)
        built == PostgresParser__build_plan_tree(plan)
    IN  IF extracted.raised THEN [untouched EXCEPT !.logged = TRUE]
        ELSE IF extracted.json = None THEN untouched
        ELSE IF extracted.json.v.kind \notin {"plan_not_dict", "plan"} THEN untouched
        ELSE IF extracted.json.v.kind = "plan_not_dict"
        THEN \* plan.get raises AttributeError
             [untouched EXCEPT !.logged = TRUE]
        ELSE IF parsed.raised
        THEN [logged |-> TRUE, rows_scanned |-> 0, total_cost |-> plan.total_cost,
              warnings |-> parsed.warnings, plan_tree |-> None]
        ELSE [logged |-> built.raised, rows_scanned |-> parsed.rows_scanned,
              total_cost |-> plan.total_cost, warnings |-> parsed.warnings,
              plan_tree |-> IF built.raised THEN None ELSE Some(built.node)]

\* mutant: the level is computed from the rows only
PostgresParser_parse_level_from_rows(explain_output, raw_plan) ==
    LET t == PostgresParser_try(explain_output)
        total_cost == IF t.total_cost.kind = "int" THEN Some(t.total_cost.n) ELSE None
        rows == IF t.rows_scanned > 0 THEN Some(t.rows_scanned) ELSE None
        metrics == EstimationMetrics(None, NA, rows,
                                     IF t.rows_scanned > 0 THEN format_rows(Some(t.rows_scanned))
                                     ELSE NA,
                                     total_cost, format_cost(total_cost))
        warnings == deduplicate_warnings(
                        t.warnings \o PostgresParser__generate_threshold_warnings(
                                          Some(t.rows_scanned), total_cost))
        resource_level == calculate_resource_level(rows, None, None, None)
    IN  IF t.total_cost.kind = "bad" THEN Raised(t.logged)
        ELSE Returned(t.logged,
                      EstimationResult(resource_level, metrics, warnings, raw_plan,
                                       t.plan_tree, "postgres"))

\* After the try block nothing is guarded: format_cost compares total_cost
\* with a number and raises TypeError when it is a string.
PostgresParser_parse(explain_output, raw_plan) ==
    LET t == PostgresParser_try(explain_output)
        total_cost == IF t.total_cost.kind = "int" THEN Some(t.total_cost.n) ELSE None
        rows == IF t.rows_scanned > 0 THEN Some(t.rows_scanned) ELSE None
        metrics == EstimationMetrics(None, NA, rows,
                                     IF t.rows_scanned > 0 THEN format_rows(Some(t.rows_scanned))
                                     ELSE NA,
                                     total_cost, format_cost(total_cost))
        warnings == deduplicate_warnings(
                        t.warnings \o PostgresParser__generate_threshold_warnings(
                                          Some(t.rows_scanned), total_cost))
        resource_level == calculate_resource_level(rows, None, None, total_cost)
    IN  IF t.total_cost.kind = "bad" THEN Raised(t.logged)
        ELSE Returned(t.logged,
                      EstimationResult(resource_level, metrics, warnings, raw_plan,
                                       t.plan_tree, "postgres"))

----------------------------------------------------------------------------
(* parsers.py: get_parser, detect_engine_type                              *)

\* mutant: the fallback for UNKNOWN is the Postgres parser
get_parser_postgres_default(engine_type) ==
    IF engine_type = "trino" THEN "TrinoParser" ELSE "PostgresParser"

\* the parser classes, named by the engine type they label results with
get_parser(engine_type) ==
    IF engine_type = "trino" THEN "TrinoParser"
    ELSE IF engine_type = "postgres" THEN "PostgresParser"
    ELSE "TrinoParser"

\* parser.parse(explain_output, raw_plan)
parse(parser, explain_output, raw_plan) ==
    IF parser = "PostgresParser" THEN PostgresParser_parse(explain_output, raw_plan)
    ELSE TrinoParser_parse(explain_output, raw_plan)

----------------------------------------------------------------------------
(* Inputs of the parsers.                                                  *)

\* lines of a plan text with annotations
MaxLines == 3
\* lines of a plan text with indentation
MaxShapeLines == 4
\* deepest indentation of such a line
MaxIndent == 2
\* child plans of the root of a JSON plan
MaxChildren == 2

SeqUpTo(S, n) == UNION {[1..k -> S] : k \in 0..n}

Plain(indent, node) == Line(indent, node, NoTok, NoTok, NoScan, FALSE, FALSE)

\* lines at indentation 0 carrying the annotations the Trino parser reads
TokenLines ==
    {Plain(0, "Fragment 0"), BracketLine,
     Line(0, "Output", IntTok(1000), NoTok, NoScan, FALSE, FALSE),
     Line(0, "Output", IntTok(ROWS_THRESHOLD_HIGH + 1), NoTok, NoScan, FALSE, FALSE),
     Line(0, "Output", BadTok, NoTok, NoScan, FALSE, FALSE),
     Line(0, "Aggregate", NoTok, MemTok(300, "GB"), NoScan, FALSE, FALSE),
     Line(0, "Aggregate", NoTok, BadTok, NoScan, FALSE, FALSE),
     Line(0, "TableScan", NoTok, NoTok, TableScan("orders"), FALSE, FALSE),
     Line(0, "ScanFilter", NoTok, NoTok, TableScan("users"), TRUE, FALSE),
     Line(0, "CrossJoin", NoTok, NoTok, NoScan, FALSE, TRUE)}

TokenTexts == SeqUpTo(TokenLines, MaxLines) \ {<<>>}

\* lines that differ in indentation only, blank lines, and lines whose
\* rows annotation cannot be converted
ShapeLines ==
    {BlankLine}
        \cup {Plain(i, "Node") : i \in 0..MaxIndent}
        \cup {Line(i, "Node", BadTok, NoTok, NoScan, FALSE, FALSE) : i \in 0..MaxIndent}

ShapeTexts == SeqUpTo(ShapeLines, MaxShapeLines)

ScanLeaves ==
    {PgNode(Some(t), r, NoTok, Some("orders"), None, <<>>) :
        t \in {"Seq Scan", "Index Scan"},
        r \in {IntTok(100000), IntTok(100001), IntTok(500000001), BadTok, NoTok}}

OtherLeaves ==
    {PgNode(Some("Result"), IntTok(1000), NoTok, None, None, <<>>),
     PgNode(Some(""), NoTok, NoTok, None, None, <<>>),
     PgNode(None, IntTok(1000), NoTok, None, None, <<>>)}

MidNodes ==
    {PgNode(Some(h[1]), IntTok(2000), NoTok, None, h[2], <<l>>) :
        h \in {<<"Hash Join", None>>, <<"Nested Loop", None>>, <<"Nested Loop", Some("a = b")>>},
        l \in {PgNode(Some("Seq Scan"), IntTok(100001), NoTok, Some("users"), None, <<>>)}}

RootHeads ==
    {<<"Hash Join", None>>, <<"Nested Loop", None>>, <<"Nested Loop", Some("")>>,
     <<"Seq Scan", None>>}

\* small scans of every scan type
SmallScans ==
    {PgNode(Some("Seq Scan"), IntTok(1000), NoTok, Some("orders"), None, <<>>),
     PgNode(Some("Seq Scan"), IntTok(2000), NoTok, Some("users"), None, <<>>),
     PgNode(Some("Index Only Scan"), IntTok(2000), NoTok, Some("users"), None, <<>>),
     PgNode(Some("Bitmap Heap Scan"), IntTok(2000), NoTok, Some("users"), None, <<>>)}

PlanTrees ==
    {PgNode(Some(h[1]), IntTok(3000), c, None, h[2], kids) :
        h \in RootHeads,
        c \in {NoTok, IntTok(5000), BadTok},
        kids \in SeqUpTo(ScanLeaves \cup SmallScans \cup OtherLeaves \cup MidNodes,
                         MaxChildren)}

CoreDocs ==
    {Doc(k, EmptyNode) :
        k \in {"scalar", "dict", "empty_list", "list_scalar", "list_no_plan", "plan_not_dict"}}
        \cup {Doc("plan", n) : n \in ScanLeaves \cup {EmptyNode}}

CorePayloads ==
    {TextPayload(t) : t \in {<<>>, <<BlankLine>>, <<Plain(0, "Output")>>, <<BracketLine>>}}
        \cup {JsonTextPayload(d) : d \in CoreDocs}
        \cup {ObjPayload(d) : d \in CoreDocs}

Shapes ==
    {"str", "list_str", "rows_plan", "rows_QUERY_PLAN", "rows_Query_Plan", "rows_other",
     "empty_list", "other"}

\* every layout with every small payload it can hold
CoreOutputs ==
    {o \in [shape : Shapes \ {"empty_list"}, payload : CorePayloads] :
        /\ o.shape \in {"str", "list_str"} => o.payload.kind # "obj"
        /\ o.shape = "other" => o.payload.kind = "obj"}
        \cup {ExplainOutput("empty_list", TextPayload(<<>>))}

\* lines of a plan text of table scans
MaxScanLines == 4

\* table scans of different tables, and a line with a constraint
ScanLines ==
    {Line(0, "TableScan", NoTok, NoTok, TableScan(t), FALSE, FALSE) :
        t \in {"orders", "users", "items", "events"}}
        \cup {Line(0, "Filter", NoTok, NoTok, NoScan, TRUE, FALSE)}

ScanTexts == SeqUpTo(ScanLines, MaxScanLines)

\* plans with estimates of zero
ZeroTexts ==
    {<<Line(0, "Output", IntTok(0), NoTok, NoScan, FALSE, FALSE)>>,
     <<Line(0, "Output", NoTok, MemTok(0, "B"), NoScan, FALSE, FALSE)>>,
     <<Line(0, "Output", IntTok(0), MemTok(0, "B"), NoScan, FALSE, FALSE)>>}

ZeroPlans ==
    {PgNode(Some("Result"), IntTok(0), IntTok(0), None, None, <<>>),
     PgNode(Some("Seq Scan"), IntTok(0), IntTok(0), Some("orders"), None, <<>>)}

\* estimates equal to each threshold of the classifier and just above it
AtAndAbove(t) == {IntTok(t), IntTok(t + 1)}

ThresholdRows ==
    {NoTok} \cup AtAndAbove(ROWS_THRESHOLD_MEDIUM) \cup AtAndAbove(ROWS_THRESHOLD_HIGH)
        \cup AtAndAbove(ROWS_THRESHOLD_CRITICAL)

ThresholdCosts ==
    {NoTok} \cup AtAndAbove(COST_THRESHOLD_MEDIUM) \cup AtAndAbove(COST_THRESHOLD_HIGH)
        \cup AtAndAbove(COST_THRESHOLD_CRITICAL)

\* a threshold of whole GiB written in KB, and one KB more
ThresholdMemory ==
    {NoTok} \cup {MemTok(t.hi * 1024 * 1024 + d, "KB") :
                     t \in {MEMORY_THRESHOLD_MEDIUM, MEMORY_THRESHOLD_HIGH,
                            MEMORY_THRESHOLD_CRITICAL},
                     d \in {0, 1}}

ThresholdTexts ==
    {<<Line(0, "Output", r, m, NoScan, FALSE, FALSE)>> :
        r \in ThresholdRows, m \in ThresholdMemory}

ThresholdPlans ==
    {PgNode(Some("Index Scan"), r, c, Some("orders"), None, <<>>) :
        r \in ThresholdRows, c \in ThresholdCosts}

\* the plans an engine answers with, in the layout its driver gives
TrinoOutputs ==
    {ExplainOutput("rows_Query_Plan", TextPayload(t)) :
        t \in TokenTexts \cup ShapeTexts \cup ScanTexts \cup ZeroTexts \cup ThresholdTexts}

PostgresOutputs ==
    {ExplainOutput("rows_QUERY_PLAN", JsonTextPayload(Doc("plan", t))) :
        t \in PlanTrees \cup ZeroPlans \cup ThresholdPlans}

ParseInputs(p) ==
    CoreOutputs \cup (IF p = "PostgresParser" THEN PostgresOutputs ELSE TrinoOutputs)

\* A backend identifier is the sequence of its characters.
UpperCase == <<"A", "B", "C", "D", "E", "F", "G", "H", "I", "J", "K", "L", "M",
               "N", "O", "P", "Q", "R", "S", "T", "U", "V", "W", "X", "Y", "Z">>

LowerCase == <<"a", "b", "c", "d", "e", "f", "g", "h", "i", "j", "k", "l", "m",
               "n", "o", "p", "q", "r", "s", "t", "u", "v", "w", "x", "y", "z">>

\* str.lower()
lower(str) ==
    [i \in 1..Len(str) |->
        IF \E k \in 1..26 : UpperCase[k] = str[i]
        THEN LowerCase[CHOOSE k \in 1..26 : UpperCase[k] = str[i]]
        ELSE str[i]]

\* needle in hay
Contains(hay, needle) ==
    \E i \in 0..(Len(hay) - Len(needle)) : SubSeq(hay, i + 1, i + Len(needle)) = needle

\* mutant: the identifier is searched as it is written
detect_engine_type_as_written(backend) ==
    IF \/ Contains(backend, <<"t", "r", "i", "n", "o">>)
       \/ Contains(backend, <<"p", "r", "e", "s", "t", "o">>)
    THEN "trino"
    ELSE IF \/ Contains(backend, <<"p", "o", "s", "t", "g", "r", "e", "s">>)
            \/ Contains(backend, <<"r", "e", "d", "s", "h", "i", "f", "t">>)
    THEN "postgres"
    ELSE "unknown"

detect_engine_type(backend) ==
    LET backend_lower == lower(backend)
    IN  IF \/ Contains(backend_lower, <<"t", "r", "i", "n", "o">>)
           \/ Contains(backend_lower, <<"p", "r", "e", "s", "t", "o">>)
        THEN "trino"
        ELSE IF \/ Contains(backend_lower, <<"p", "o", "s", "t", "g", "r", "e", "s">>)
                \/ Contains(backend_lower, <<"r", "e", "d", "s", "h", "i", "f", "t">>)
        THEN "postgres"
        ELSE "unknown"

TrinoParser_get_explain_sql(sql) ==
    [prefix |-> "EXPLAIN (TYPE DISTRIBUTED, FORMAT JSON) ", sql |-> sql]

PostgresParser_get_explain_sql(sql) ==
    [prefix |-> "EXPLAIN (FORMAT JSON, COSTS) ", sql |-> sql]

\* parser.get_explain_sql(sql)
get_explain_sql(parser, sql) ==
    IF parser = "PostgresParser" THEN PostgresParser_get_explain_sql(sql)
    ELSE TrinoParser_get_explain_sql(sql)

----------------------------------------------------------------------------
(* Inputs of the classifier: each metric is absent, zero, or within        *)
(* MetricDelta units of one of its three thresholds.                       *)

MetricDelta == 1

Around(t) == {t + d : d \in (0 - MetricDelta)..MetricDelta}

BytesAround(t) ==
    {Bytes(t.hi, d) : d \in 0..MetricDelta}
        \cup {Bytes(t.hi - 1, GiB - d) : d \in 1..MetricDelta}

Optional(S) == {None} \cup {Some(x) : x \in S}

RowsInputs ==
    Optional({0} \cup Around(ROWS_THRESHOLD_MEDIUM) \cup Around(ROWS_THRESHOLD_HIGH)
                 \cup Around(ROWS_THRESHOLD_CRITICAL))

TimeInputs ==
    Optional({0} \cup Around(TIME_THRESHOLD_MEDIUM) \cup Around(TIME_THRESHOLD_HIGH)
                 \cup Around(TIME_THRESHOLD_CRITICAL))

CostInputs ==
    Optional({0} \cup Around(COST_THRESHOLD_MEDIUM) \cup Around(COST_THRESHOLD_HIGH)
                 \cup Around(COST_THRESHOLD_CRITICAL))

MemoryInputs ==
    Optional({Bytes(0, 0)} \cup BytesAround(MEMORY_THRESHOLD_MEDIUM)
                 \cup BytesAround(MEMORY_THRESHOLD_HIGH)
                 \cup BytesAround(MEMORY_THRESHOLD_CRITICAL))

----------------------------------------------------------------------------
(* api.py: QueryEstimatorAPI.estimate, one request.                        *)
(* The collaborators answer nondeterministically: request.json,            *)
(* DatabaseDAO.find_one_or_none and database.execute may each raise, and   *)
(* so may the serialization of the 200 response.  catalog and schema are   *)
(* only passed on to QueryOptions and are left out.                        *)

\* types.py: to_dict of the result and of its parts; the keys of the
\* response body are camelCase
Warning_to_dict(w) ==
    [severity |-> w.severity, title |-> w.title, description |-> w.description,
     recommendation |-> w.recommendation, affectedTables |-> w.affected_tables]

RECURSIVE PlanNode_to_dict(_)
PlanNode_to_dict(n) ==
    [nodeType |-> n.node_type, rows |-> n.rows, cost |-> n.cost, details |-> n.details,
     children |-> [i \in 1..Len(n.children) |-> PlanNode_to_dict(n.children[i])]]

EstimationMetrics_to_dict(m) ==
    [executionTimeMs |-> m.execution_time_ms, executionTimeLabel |-> m.execution_time_label,
     planningTimeMs |-> m.planning_time_ms, planningTimeLabel |-> m.planning_time_label,
     memoryBytes |-> m.memory_bytes, memoryLabel |-> m.memory_label,
     rowsEstimated |-> m.rows_estimated, rowsLabel |-> m.rows_label,
     cost |-> m.cost, costLabel |-> m.cost_label]

EstimationResult_to_dict(r) ==
    [resourceLevel |-> r.resource_level,
     metrics |-> EstimationMetrics_to_dict(r.metrics),
     warnings |-> [i \in 1..Len(r.warnings) |-> Warning_to_dict(r.warnings[i])],
     rawPlan |-> r.raw_plan,
     planTree |-> IF r.plan_tree # None THEN Some(PlanNode_to_dict(r.plan_tree.v)) ELSE None,
     engineType |-> r.engine_type]

\* request bodies: request.json raises ("raises"), gives a JSON value that
\* is no object ("not_dict"), or gives an object (or nothing, read as {})
\* whose "sql" and "databaseId" are absent or present
Requests ==
    {[kind |-> "raises", sql |-> None, databaseId |-> None],
     [kind |-> "not_dict", sql |-> None, databaseId |-> None]}
        \cup [kind : {"dict"},
              sql : {None, Some(""), Some("SELECT 1")},
              databaseId : {None, Some(0), Some(1)}]

\* backend strings of the databases the directory may hold; None is a
\* database whose backend attribute is None
Backends ==
    {None,
     Some(<<"p", "o", "s", "t", "g", "r", "e", "s", "q", "l">>),
     Some(<<"a", "p", "a", "c", "h", "e", "-", "t", "r", "i", "n", "o">>),
     Some(<<"s", "q", "l", "i", "t", "e">>),
     Some(<<"P", "r", "e", "s", "t", "o", "D", "B">>),
     Some(<<"R", "e", "d", "s", "h", "i", "f", "t">>),
     Some(<<"m", "y", "s", "q", "l">>)}

\* sample plans of each engine
SamplePlans ==
    {ExplainOutput("rows_Query_Plan",
        TextPayload(<<Line(0, "Output", IntTok(1000), NoTok, NoScan, FALSE, FALSE),
                      Line(1, "TableScan", NoTok, NoTok, TableScan("orders"), FALSE, FALSE)>>)),
     ExplainOutput("rows_QUERY_PLAN",
        JsonTextPayload(Doc("plan",
            PgNode(Some("Seq Scan"), IntTok(500000), IntTok(5000), Some("orders"), None, <<>>)))),
     ExplainOutput("rows_QUERY_PLAN",
        JsonTextPayload(Doc("plan",
            PgNode(Some("Seq Scan"), IntTok(500000), BadTok, Some("orders"), None, <<>>))))}

\* statements[i].data: None, a DataFrame (to_dict(orient="records") gives
\* its rows, a list of dicts, possibly empty) or another object, handed to
\* the parser as it is
DataFrames ==
    {[kind |-> "frame", output |-> o] :
        o \in {x \in CoreOutputs \cup SamplePlans :
                  x.shape \in {"rows_plan", "rows_QUERY_PLAN", "rows_Query_Plan",
                               "rows_other", "empty_list"}}}

RawData ==
    {[kind |-> "raw", output |-> o] :
        o \in {x \in CoreOutputs : x.shape \in {"str", "list_str", "other"}}}

NoData == [kind |-> "none", output |-> ExplainOutput("empty_list", TextPayload(<<>>))]

\* what database.execute returns
ExecResults ==
    [status : {"failed", "timed_out"},
     error_message : {None, Some(""), Some("syntax error")},
     statements : {<<>>}]
        \cup [status : {"success"}, error_message : {None},
              statements : {<<>>, <<NoData>>}
                               \cup {<<d>> : d \in DataFrames \cup RawData}
                               \cup {<<NoData, d>> : d \in {x \in DataFrames : x.output \in SamplePlans}}]

NoArgs == [rows |-> None, time_ms |-> None, memory_bytes |-> None, cost |-> None]

\* self.response(status, message=..., result=...)
Response(status, message, backend, result) ==
    [status |-> status, message |-> message, backend |-> backend, result |-> result]

InitEstimate ==
    /\ pc = "start"
    /\ request = None
    /\ database = None
    /\ engine = "none"
    /\ explain_sql = None
    /\ exec_result = None
    /\ exc = None
    /\ response = None
    /\ events = <<>>

\* no request is being handled
NoRequest ==
    /\ pc = "idle"
    /\ request = None
    /\ database = None
    /\ engine = "none"
    /\ explain_sql = None
    /\ exec_result = None
    /\ exc = None
    /\ response = None
    /\ events = <<>>

\* deduplicate_warnings is not being called
NoDedup == dedup_given = <<>> /\ dedup_result = None

\* the threads that call parse on the shared parser instance
Threads == {"a", "b"}

\* the locals of one parse call before it is entered; warnings is the
\* identity of a list object, 0 before the list is created
NewCall(explain_output) ==
    [pc |-> "enter", explain_output |-> explain_output, warnings |-> 0,
     memory_bytes |-> None, rows |-> None, rows_scanned |-> 0, total_cost |-> NoTok,
     plan_tree |-> None, logged |-> FALSE, result |-> None]

\* no parser instance is shared between threads
NoCalls == calls = <<>> /\ lists = <<>>

\* build_tree is not running
NoWalk == walk = [status |-> "none"]

\* no editor_snippets request was received
NoSnippets == store = <<>> /\ reqs = <<>> /\ saved = <<>>

NoSide == NoCalls /\ NoWalk /\ NoSnippets

Init ==
    /\ NoSide
    /\ InitEstimate
    /\ NoDedup
    /\ parser_used = "none" /\ parse_input = None /\ outcome = None
    /\ args = NoArgs /\ level = "pending"

\* return self.response(...), after the calls in made
Return(r, made) ==
    /\ response' = Some(r)
    /\ events' = events \o made \o <<"respond">>
    /\ pc' = "done"

\* an exception raised inside the try block, after the calls in made,
\* reaches the except block
Raise(message, made) ==
    /\ exc' = Some(message)
    /\ events' = events \o made
    /\ pc' = "except"

\* body = request.json or {}; sql = body.get("sql"); ...
ReadRequest ==
    /\ pc = "start"
    /\ \E r \in Requests :
         /\ request' = Some(r)
         /\ IF r.kind = "raises" THEN Raise("400 Bad Request", <<>>)
            ELSE IF r.kind = "not_dict" THEN Raise("object has no attribute 'get'", <<>>)
            ELSE pc' = "validate" /\ UNCHANGED <<exc, events>>
    /\ UNCHANGED <<database, engine, explain_sql, exec_result, response>>
    /\ UNCHANGED <<side_vars, dedup_vars, args, level, parse_vars>>

\* mutant: the database id is not validated
Validate_sql_only ==
    /\ pc = "validate"
    /\ IF request.v.sql = None \/ request.v.sql.v = ""
       THEN Return(Response(400, "SQL query is required", None, None), <<>>)
       ELSE pc' = "lookup" /\ UNCHANGED <<response, events>>
    /\ UNCHANGED <<request, database, engine, explain_sql, exec_result, exc>>
    /\ UNCHANGED <<side_vars, dedup_vars, args, level, parse_vars>>

\* if not sql: ...; if not database_id: ...
Validate ==
    /\ pc = "validate"
    /\ IF request.v.sql = None \/ request.v.sql.v = ""
       THEN Return(Response(400, "SQL query is required", None, None), <<>>)
       ELSE IF request.v.databaseId = None \/ request.v.databaseId.v = 0
       THEN Return(Response(400, "Database ID is required", None, None), <<>>)
       ELSE pc' = "lookup" /\ UNCHANGED <<response, events>>
    /\ UNCHANGED <<request, database, engine, explain_sql, exec_result, exc>>
    /\ UNCHANGED <<side_vars, dedup_vars, args, level, parse_vars>>

\* mutant: the result of the lookup is not compared with None, so that
\* database.backend raises AttributeError when there is no database
Lookup_unchecked ==
    /\ pc = "lookup"
    /\ \/ /\ Raise("database directory unavailable", <<"lookup">>)
          /\ UNCHANGED <<database, response>>
       \/ /\ Raise("'NoneType' object has no attribute 'backend'", <<"lookup">>)
          /\ UNCHANGED <<database, response>>
       \/ \E b \in Backends :
            /\ database' = Some([backend |-> b])
            /\ events' = Append(events, "lookup")
            /\ pc' = "detect"
            /\ UNCHANGED <<exc, response>>
    /\ UNCHANGED <<request, engine, explain_sql, exec_result>>
    /\ UNCHANGED <<side_vars, dedup_vars, args, level, parse_vars>>

\* database = DatabaseDAO.find_one_or_none(id=database_id);
\* if database is None: ...
Lookup ==
    /\ pc = "lookup"
    /\ \/ /\ Raise("database directory unavailable", <<"lookup">>)
          /\ UNCHANGED <<database, response>>
       \/ /\ Return(Response(404, "Database not found", None, None), <<"lookup">>)
          /\ UNCHANGED <<database, exc>>
       \/ \E b \in Backends :
            /\ database' = Some([backend |-> b])
            /\ events' = Append(events, "lookup")
            /\ pc' = "detect"
            /\ UNCHANGED <<exc, response>>
    /\ UNCHANGED <<request, engine, explain_sql, exec_result>>
    /\ UNCHANGED <<side_vars, dedup_vars, args, level, parse_vars>>

\* mutant: the UNKNOWN check is missing and get_parser falls back to Trino
Detect_no_unknown_check ==
    /\ pc = "detect"
    /\ IF database.v.backend = None
       THEN /\ Raise("'NoneType' object has no attribute 'lower'", <<"detect">>)
            /\ UNCHANGED <<engine, parser_used, explain_sql, response>>
       ELSE LET detected == detect_engine_type(database.v.backend.v)
            IN  /\ engine' = detected
                /\ parser_used' = get_parser(detected)
                /\ explain_sql' = Some(get_explain_sql(get_parser(detected),
                                                       request.v.sql.v))
                /\ events' = events \o <<"detect", "get_parser", "get_explain_sql">>
                /\ pc' = "execute"
                /\ UNCHANGED <<exc, response>>
    /\ UNCHANGED <<request, database, exec_result>>
    /\ UNCHANGED <<side_vars, dedup_vars, args, level, parse_input, outcome>>

\* engine_type = detect_engine_type(database.backend); the UNKNOWN check;
\* parser = get_parser(engine_type); explain_sql = parser.get_explain_sql(sql)
Detect ==
    /\ pc = "detect"
    /\ IF database.v.backend = None
       THEN /\ Raise("'NoneType' object has no attribute 'lower'", <<"detect">>)
            /\ UNCHANGED <<engine, parser_used, explain_sql, response>>
       ELSE LET detected == detect_engine_type(database.v.backend.v)
            IN  /\ engine' = detected
                /\ IF detected = "unknown"
                   THEN /\ Return(Response(400,
                                   "Query estimation is not supported for this database type",
                                   database.v.backend, None), <<"detect">>)
                        /\ UNCHANGED <<parser_used, explain_sql, exc>>
                   ELSE /\ parser_used' = get_parser(detected)
                        /\ explain_sql' = Some(get_explain_sql(get_parser(detected),
                                                               request.v.sql.v))
                        /\ events' = events \o <<"detect", "get_parser", "get_explain_sql">>
                        /\ pc' = "execute"
                        /\ UNCHANGED <<exc, response>>
    /\ UNCHANGED <<request, database, exec_result>>
    /\ UNCHANGED <<side_vars, dedup_vars, args, level, parse_input, outcome>>

\* result = database.execute(explain_sql, options)
Execute ==
    /\ pc = "execute"
    /\ \/ /\ Raise("connection refused", <<"execute">>)
          /\ UNCHANGED exec_result
       \/ \E r \in ExecResults :
            /\ exec_result' = Some(r)
            /\ events' = Append(events, "execute")
            /\ pc' = "check"
            /\ UNCHANGED exc
    /\ UNCHANGED <<request, database, engine, explain_sql, response>>
    /\ UNCHANGED <<side_vars, dedup_vars, args, level, parse_vars>>

\* the two checks of the result, then explain_data, raw_plan and
\* explain_output
CheckResult ==
    /\ pc = "check"
    /\ LET result == exec_result.v
       IN  IF result.status # "success"
           THEN /\ Return(Response(500,
                                   IF result.error_message = None \/ result.error_message.v = ""
                                   THEN "EXPLAIN query failed"
                                   ELSE result.error_message.v,
                                   None, None), <<>>)
                /\ UNCHANGED parse_input
           ELSE IF result.statements = <<>> \/ result.statements[1].kind = "none"
           THEN /\ Return(Response(500, "No EXPLAIN output received", None, None), <<>>)
                /\ UNCHANGED parse_input
           ELSE /\ parse_input' = Some(result.statements[1].output)
                /\ pc' = "parse"
                /\ UNCHANGED <<response, events>>
    /\ UNCHANGED <<request, database, engine, explain_sql, exec_result, exc>>
    /\ UNCHANGED <<side_vars, dedup_vars, args, level, parser_used, outcome>>

\* mutant: the call of parse is outside the try block, so that an
\* exception of parse leaves estimate without a response
Parse_outside_try ==
    /\ pc = "parse"
    /\ LET o == parse(parser_used, parse_input.v, "raw")
       IN  /\ outcome' = Some(o)
           /\ events' = Append(events, "parse")
           /\ pc' = IF o.raised THEN "escaped" ELSE "respond"
           /\ UNCHANGED exc
    /\ UNCHANGED <<request, database, engine, explain_sql, exec_result, response>>
    /\ UNCHANGED <<side_vars, dedup_vars, args, level, parser_used, parse_input>>

\* estimation_result = parser.parse(explain_output, raw_plan)
Parse ==
    /\ pc = "parse"
    /\ LET o == parse(parser_used, parse_input.v, "raw")
       IN  /\ outcome' = Some(o)
           /\ IF o.raised
              THEN Raise("'<' not supported between instances of 'str' and 'int'", <<"parse">>)
              ELSE /\ events' = Append(events, "parse")
                   /\ pc' = "respond"
                   /\ UNCHANGED exc
    /\ UNCHANGED <<request, database, engine, explain_sql, exec_result, response>>
    /\ UNCHANGED <<side_vars, dedup_vars, args, level, parser_used, parse_input>>

\* mutant: the body leaves the warnings out
Respond_without_warnings ==
    /\ pc = "respond"
    /\ \/ /\ Return(Response(200, "", None,
                              Some([EstimationResult_to_dict(outcome.v.result.v)
                                        EXCEPT !.warnings = <<>>])), <<>>)
          /\ UNCHANGED exc
       \/ /\ Raise("Object is not JSON serializable", <<>>)
          /\ UNCHANGED response
    /\ UNCHANGED <<request, database, engine, explain_sql, exec_result>>
    /\ UNCHANGED <<side_vars, dedup_vars, args, level, parse_vars>>

\* return self.response(200, result=estimation_result.to_dict())
Respond ==
    /\ pc = "respond"
    /\ \/ /\ Return(Response(200, "", None,
                              Some(EstimationResult_to_dict(outcome.v.result.v))), <<>>)
          /\ UNCHANGED exc
       \/ /\ Raise("Object is not JSON serializable", <<>>)
          /\ UNCHANGED response
    /\ UNCHANGED <<request, database, engine, explain_sql, exec_result>>
    /\ UNCHANGED <<side_vars, dedup_vars, args, level, parse_vars>>

\* except Exception as ex: return self.response(500, message=str(ex))
Except ==
    /\ pc = "except"
    /\ Return(Response(500, exc.v, None, None), <<>>)
    /\ UNCHANGED <<request, database, engine, explain_sql, exec_result, exc>>
    /\ UNCHANGED <<side_vars, dedup_vars, args, level, parse_vars>>

Next ==
    \/ ReadRequest
    \/ Validate
    \/ Lookup
    \/ Detect
    \/ Execute
    \/ CheckResult
    \/ Parse
    \/ Respond
    \/ Except

Spec == Init /\ [][Next]_vars

----------------------------------------------------------------------------
(* The classifier called once on arbitrary arguments.                      *)

InitClassify ==
    /\ NoSide
    /\ NoDedup
    /\ args \in [rows : RowsInputs, time_ms : TimeInputs,
                 memory_bytes : MemoryInputs, cost : CostInputs]
    /\ level = "pending"
    /\ parser_used = "none" /\ parse_input = None /\ outcome = None
    /\ NoRequest

Classify ==
    /\ level = "pending"
    /\ level' = calculate_resource_level(args.rows, args.time_ms,
                                         args.memory_bytes, args.cost)
    /\ UNCHANGED <<side_vars, dedup_vars, args, parse_vars, estimate_vars>>

NextClassify == Classify

SpecClassify == InitClassify /\ [][NextClassify]_vars

----------------------------------------------------------------------------
(* A parser called once on an arbitrary EXPLAIN output.                    *)

InitParse ==
    /\ NoSide
    /\ NoDedup
    /\ parser_used \in {"TrinoParser", "PostgresParser"}
    /\ parse_input \in {Some(o) : o \in ParseInputs(parser_used)}
    /\ outcome = None
    /\ args = NoArgs /\ level = "pending"
    /\ NoRequest

TrinoParse ==
    /\ parser_used = "TrinoParser" /\ outcome = None
    /\ outcome' = Some(TrinoParser_parse(parse_input.v, "raw"))
    /\ UNCHANGED <<side_vars, dedup_vars, args, level, parser_used, parse_input, estimate_vars>>

PostgresParse ==
    /\ parser_used = "PostgresParser" /\ outcome = None
    /\ outcome' = Some(PostgresParser_parse(parse_input.v, "raw"))
    /\ UNCHANGED <<side_vars, dedup_vars, args, level, parser_used, parse_input, estimate_vars>>

NextParse == TrinoParse \/ PostgresParse

SpecParse == InitParse /\ [][NextParse]_vars

----------------------------------------------------------------------------
(* deduplicate_warnings called once on an arbitrary list of warnings.      *)

\* length of the list
MaxWarnings == 4

\* titles equal, different, and different in case only
DedupTitles == {"Scan", "scan", "Join"}

DedupWarnings ==
    {Warning("warning", t, d, NA, "", <<>>) : t \in DedupTitles, d \in {"first", "second"}}

InitDedup ==
    /\ NoSide
    /\ dedup_given \in SeqUpTo(DedupWarnings, MaxWarnings)
    /\ dedup_result = None
    /\ args = NoArgs /\ level = "pending"
    /\ parser_used = "none" /\ parse_input = None /\ outcome = None
    /\ NoRequest

Dedup ==
    /\ dedup_result = None
    /\ dedup_result' = Some(deduplicate_warnings(dedup_given))
    /\ UNCHANGED <<side_vars, dedup_given, args, level, parse_vars, estimate_vars>>

NextDedup == Dedup

SpecDedup == InitDedup /\ [][NextDedup]_vars

----------------------------------------------------------------------------
(* The dispatcher used on its own: detect_engine_type on a backend         *)
(* identifier, get_parser on an engine type (detected, or given by the     *)
(* caller), and the chosen parser called once.                             *)

\* backend identifiers: the supported names in several cases, inside longer
\* names, both families in one name, near misses and the empty string
BackendIds ==
    {<<"p", "o", "s", "t", "g", "r", "e", "s", "q", "l">>,
     <<"a", "p", "a", "c", "h", "e", "-", "t", "r", "i", "n", "o">>,
     <<"s", "q", "l", "i", "t", "e">>,
     <<"P", "r", "e", "s", "t", "o", "D", "B">>,
     <<"R", "e", "d", "s", "h", "i", "f", "t">>,
     <<"m", "y", "s", "q", "l">>,
     <<"t", "r", "i", "n", "o">>,
     <<"T", "R", "I", "N", "O">>,
     <<"T", "r", "i", "n", "o">>,
     <<"p", "r", "e", "s", "t", "o">>,
     <<"p", "o", "s", "t", "g", "r", "e", "s">>,
     <<"P", "O", "S", "T", "G", "R", "E", "S">>,
     <<"r", "e", "d", "s", "h", "i", "f", "t">>,
     <<"t", "r", "i", "n", "o", "+", "p", "o", "s", "t", "g", "r", "e", "s">>,
     <<"p", "o", "s", "t", "g", "r", "e", "s", "+", "p", "r", "e", "s", "t", "o">>,
     <<"t", "r", "i", "n">>,
     <<"t", "r", "i", "-", "n", "o">>,
     <<"p", "o", "s", "t", "g", "r", "e">>,
     <<"h", "i", "v", "e">>,
     <<>>}

InitDispatch ==
    /\ NoSide
    /\ \/ /\ database \in {Some([backend |-> Some(b)]) : b \in BackendIds}
          /\ engine = "none"
       \/ /\ database = None
          /\ engine \in EngineType
    /\ parser_used = "none"
    /\ parse_input \in {Some(o) : o \in CoreOutputs \cup SamplePlans}
    /\ outcome = None
    /\ pc = "idle" /\ request = None /\ explain_sql = None /\ exec_result = None
    /\ exc = None /\ response = None /\ events = <<>>
    /\ args = NoArgs /\ level = "pending"
    /\ NoDedup

DetectEngineType ==
    /\ database # None /\ engine = "none"
    /\ engine' = detect_engine_type(database.v.backend.v)
    /\ UNCHANGED <<side_vars, dedup_vars, args, level, parse_vars, pc, request, database, explain_sql,
                   exec_result, exc, response, events>>

GetParser ==
    /\ engine # "none" /\ parser_used = "none"
    /\ parser_used' = get_parser(engine)
    /\ UNCHANGED <<side_vars, dedup_vars, args, level, parse_input, outcome, estimate_vars>>

ParserParse ==
    /\ parser_used # "none" /\ outcome = None
    /\ outcome' = Some(parse(parser_used, parse_input.v, "raw"))
    /\ UNCHANGED <<side_vars, dedup_vars, args, level, parser_used, parse_input, estimate_vars>>

NextDispatch == DetectEngineType \/ GetParser \/ ParserParse

SpecDispatch == InitDispatch /\ [][NextDispatch]_vars

----------------------------------------------------------------------------
(* Two threads calling parse on one parser instance.  A call keeps its     *)
(* state in its own frame; the warnings list is an object, created by the  *)
(* call, that _parse_trino_plan, _parse_plan_node and extend change in     *)
(* place.  The threads interleave between the statements of parse.         *)

SharedTexts ==
    {<<Line(0, "Output", IntTok(ROWS_THRESHOLD_CRITICAL + 1), NoTok, NoScan, FALSE, FALSE),
       Line(1, "CrossJoin", NoTok, NoTok, NoScan, FALSE, TRUE)>>,
     <<Line(0, "Output", IntTok(10), MemTok(300, "GB"), NoScan, FALSE, FALSE),
       Line(1, "TableScan", NoTok, NoTok, TableScan("orders"), FALSE, FALSE)>>,
     <<Line(0, "Output", IntTok(10), NoTok, NoScan, FALSE, FALSE),
       Line(1, "CrossJoin", BadTok, NoTok, NoScan, FALSE, TRUE)>>,
     <<Plain(0, "Output")>>}

SharedPlans ==
    {PgNode(Some("Nested Loop"), IntTok(3000), IntTok(COST_THRESHOLD_HIGH + 1), None, None,
            <<PgNode(Some("Seq Scan"), IntTok(100001), NoTok, Some("orders"), None, <<>>)>>),
     PgNode(Some("Hash Join"), IntTok(3000), IntTok(5000), None, None,
            <<PgNode(Some("Seq Scan"), IntTok(500000001), NoTok, Some("users"), None, <<>>),
              PgNode(Some("Index Scan"), BadTok, NoTok, Some("orders"), None, <<>>)>>),
     PgNode(Some("Seq Scan"), IntTok(1000), BadTok, Some("orders"), None, <<>>),
     PgNode(Some("Result"), IntTok(1000), NoTok, None, None, <<>>)}

SharedInputs(p) ==
    IF p = "TrinoParser"
    THEN {ExplainOutput("rows_Query_Plan", TextPayload(t)) : t \in SharedTexts}
             \cup {ExplainOutput("empty_list", TextPayload(<<>>))}
    ELSE {ExplainOutput("rows_QUERY_PLAN", JsonTextPayload(Doc("plan", t))) : t \in SharedPlans}
             \cup {ExplainOutput("rows_QUERY_PLAN", JsonTextPayload(Doc("plan_not_dict", EmptyNode))),
                   ExplainOutput("empty_list", TextPayload(<<>>))}

InitShared ==
    /\ NoDedup
    /\ parser_used \in {"TrinoParser", "PostgresParser"}
    /\ parse_input = None /\ outcome = None
    /\ args = NoArgs /\ level = "pending"
    /\ NoRequest
    /\ calls \in [Threads -> {NewCall(o) : o \in SharedInputs(parser_used)}]
    /\ lists = <<>>
    /\ NoWalk /\ NoSnippets

\* one statement of the call of thread t: its frame becomes frame, the
\* list objects become objects
Step(t, frame, objects) ==
    /\ calls' = [calls EXCEPT ![t] = frame]
    /\ lists' = objects
    /\ UNCHANGED <<dedup_vars, args, level, parse_vars, estimate_vars, walk, snippet_vars>>

\* mutant: the warnings list is an attribute of the parser instance
Enter_on_instance(t) ==
    /\ calls[t].pc = "enter"
    /\ Step(t, [calls[t] EXCEPT !.pc = "extract", !.warnings = 1], <<<<>>>>)

\* warnings: list[Warning] = [] and the other locals
Enter(t) ==
    /\ calls[t].pc = "enter"
    /\ Step(t, [calls[t] EXCEPT !.pc = "extract", !.warnings = Len(lists) + 1],
            Append(lists, <<>>))

\* the plan the call extracted from its explain_output
PlanText(t) == TrinoParser__extract_plan_text(calls[t].explain_output)

PlanJson(t) == PostgresParser__extract_plan_json(calls[t].explain_output)

\* _extract_plan_text / _extract_plan_json and the conditions that guard
\* the body of the try block; PostgresParser reads Total Cost here
Extract(t) ==
    LET c == calls[t]
        e == PlanJson(t)
    IN  /\ c.pc = "extract"
        /\ IF parser_used = "TrinoParser"
           THEN Step(t, [c EXCEPT !.pc = IF PlanText(t) = <<>> THEN "threshold"
                                         ELSE "parse_plan"], lists)
           ELSE IF e.raised
           THEN Step(t, [c EXCEPT !.pc = "threshold", !.logged = TRUE], lists)
           ELSE IF e.json = None \/ e.json.v.kind \notin {"plan_not_dict", "plan"}
           THEN Step(t, [c EXCEPT !.pc = "threshold"], lists)
           ELSE IF e.json.v.kind = "plan_not_dict"
           THEN Step(t, [c EXCEPT !.pc = "threshold", !.logged = TRUE], lists)
           ELSE Step(t, [c EXCEPT !.pc = "parse_plan",
                                  !.total_cost = e.json.v.plan.total_cost], lists)

\* _parse_trino_plan / _parse_plan_node append to the list object they
\* are handed; the locals are assigned only when the method returns
ParsePlan(t) ==
    LET c == calls[t]
        trino == TrinoParser__parse_trino_plan(PlanText(t), lists[c.warnings])
        postgres == PostgresParser__parse_plan_node(PlanJson(t).json.v.plan, lists[c.warnings])
    IN  /\ c.pc = "parse_plan"
        /\ IF parser_used = "TrinoParser"
           THEN Step(t, IF trino.raised
                        THEN [c EXCEPT !.pc = "threshold", !.logged = TRUE]
                        ELSE [c EXCEPT !.pc = "build", !.memory_bytes = trino.memory_bytes,
                                       !.rows = trino.rows],
                     [lists EXCEPT ![c.warnings] = trino.warnings])
           ELSE Step(t, IF postgres.raised
                        THEN [c EXCEPT !.pc = "threshold", !.logged = TRUE]
                        ELSE [c EXCEPT !.pc = "build", !.rows_scanned = postgres.rows_scanned],
                     [lists EXCEPT ![c.warnings] = postgres.warnings])

\* _build_plan_tree, the last statement of the try block
BuildTree(t) ==
    LET c == calls[t]
        trino == TrinoParser__build_plan_tree(PlanText(t))
        postgres == PostgresParser__build_plan_tree(PlanJson(t).json.v.plan)
    IN  /\ c.pc = "build"
        /\ IF parser_used = "TrinoParser"
           THEN Step(t, [c EXCEPT !.pc = "threshold", !.logged = trino.raised,
                                  !.plan_tree = trino.tree], lists)
           ELSE Step(t, [c EXCEPT !.pc = "threshold", !.logged = postgres.raised,
                                  !.plan_tree = IF postgres.raised THEN None
                                                ELSE Some(postgres.node)], lists)

\* the cost of a Postgres call as a number
CostOf(c) == IF c.total_cost.kind = "int" THEN Some(c.total_cost.n) ELSE None

\* metrics = EstimationMetrics(...) and warnings.extend(...): format_cost
\* raises on a cost that is not a number
Threshold(t) ==
    LET c == calls[t]
    IN  /\ c.pc = "threshold"
        /\ IF parser_used = "TrinoParser"
           THEN Step(t, [c EXCEPT !.pc = "finish"],
                     [lists EXCEPT ![c.warnings] =
                         @ \o TrinoParser__generate_threshold_warnings(c.memory_bytes, c.rows)])
           ELSE IF c.total_cost.kind = "bad"
           THEN Step(t, [c EXCEPT !.pc = "done", !.result = Some(Raised(c.logged))], lists)
           ELSE Step(t, [c EXCEPT !.pc = "finish"],
                     [lists EXCEPT ![c.warnings] =
                         @ \o PostgresParser__generate_threshold_warnings(
                                  Some(c.rows_scanned), CostOf(c))])

\* deduplicate_warnings, calculate_resource_level and the return
Finish(t) ==
    LET c == calls[t]
        warnings == deduplicate_warnings(lists[c.warnings])
        pg_rows == IF c.rows_scanned > 0 THEN Some(c.rows_scanned) ELSE None
        result ==
            IF parser_used = "TrinoParser"
            THEN EstimationResult(
                     calculate_resource_level(c.rows, None, c.memory_bytes, None),
                     EstimationMetrics(c.memory_bytes, format_bytes(c.memory_bytes),
                                       c.rows, format_rows(c.rows), None, NA),
                     warnings, "raw", c.plan_tree, "trino")
            ELSE EstimationResult(
                     calculate_resource_level(pg_rows, None, None, CostOf(c)),
                     EstimationMetrics(None, NA, pg_rows,
                                       IF c.rows_scanned > 0 THEN format_rows(pg_rows) ELSE NA,
                                       CostOf(c), format_cost(CostOf(c))),
                     warnings, "raw", c.plan_tree, "postgres")
    IN  /\ c.pc = "finish"
        /\ Step(t, [c EXCEPT !.pc = "done", !.result = Some(Returned(c.logged, result))], lists)

NextShared ==
    \E t \in Threads :
        \/ Enter(t)
        \/ Extract(t)
        \/ ParsePlan(t)
        \/ BuildTree(t)
        \/ Threshold(t)
        \/ Finish(t)

SpecShared == InitShared /\ [][NextShared]_vars

----------------------------------------------------------------------------
(* build_tree of TrinoParser._build_plan_tree, one loop iteration or one   *)
(* return at a time.  The stack holds the frames of the recursive calls;   *)
(* idx is the index the running call works on and hands back on return.    *)

\* plan texts whose lines carry their position as the node type
WalkNames == <<"L1", "L2", "L3", "L4", "L5", "L6">>

WalkLines(i) ==
    {BlankLine, Line(0, WalkNames[i], BadTok, NoTok, NoScan, FALSE, FALSE)}
        \cup {Plain(d, WalkNames[i]) : d \in 0..MaxIndent}

RECURSIVE WalkTextsOfLen(_)
WalkTextsOfLen(k) ==
    IF k = 0 THEN {<<>>}
    ELSE {Append(t, l) : t \in WalkTextsOfLen(k - 1), l \in WalkLines(k)}

WalkTexts == UNION {WalkTextsOfLen(k) : k \in 0..MaxShapeLines}

Frame(start_idx, parent_indent) ==
    [start_idx |-> start_idx, parent_indent |-> parent_indent, nodes |-> <<>>,
     open |-> BlankLine]

InitWalk ==
    /\ NoDedup /\ NoCalls /\ NoRequest /\ NoSnippets
    /\ parser_used = "none" /\ parse_input = None /\ outcome = None
    /\ args = NoArgs /\ level = "pending"
    /\ \E t \in WalkTexts :
          walk = [status |-> "walking", text |-> t, lines |-> StripSplit(t), idx |-> 0,
                  stack |-> <<Frame(0, -1)>>, visited |-> <<>>, tree |-> None]

Top == walk.stack[Len(walk.stack)]

\* the loop is at a line: idx < len(lines)
AtLine == walk.status = "walking" /\ walk.idx < Len(walk.lines)

CurrentLine == walk.lines[walk.idx + 1]

\* the line is not blank and does not end the loop of the running call
Taken ==
    /\ AtLine /\ ~CurrentLine.blank
    /\ ~(get_indent(CurrentLine) <= Top.parent_indent /\ walk.idx > Top.start_idx)

\* the test that sends build_tree into the recursive call
HasDeeperNext ==
    /\ walk.idx + 1 < Len(walk.lines)
    /\ ~walk.lines[walk.idx + 2].blank
    /\ get_indent(walk.lines[walk.idx + 2]) > get_indent(CurrentLine)

WalkStep(w) ==
    /\ walk' = w
    /\ UNCHANGED <<dedup_vars, args, level, parse_vars, estimate_vars, shared_vars, snippet_vars>>

NodeOf(line, children) ==
    PlanNode(parse_node_type(line).node_type, parse_node_type(line).details.rows, None,
             parse_node_type(line).details, children)

\* mutant: a blank line is skipped together with the line after it
SkipBlank_and_next ==
    /\ AtLine /\ CurrentLine.blank
    /\ WalkStep([walk EXCEPT !.idx = @ + 2])

\* if not line.strip(): idx += 1; continue
SkipBlank ==
    /\ AtLine /\ CurrentLine.blank
    /\ WalkStep([walk EXCEPT !.idx = @ + 1])

\* parse_node_type raises: the exception leaves every call of build_tree
Fail ==
    /\ Taken /\ parse_node_type(CurrentLine).raised
    /\ WalkStep([walk EXCEPT !.status = "raised"])

\* a line without children: idx += 1 and nodes.append(...)
Leaf ==
    /\ Taken /\ ~parse_node_type(CurrentLine).raised /\ ~HasDeeperNext
    /\ WalkStep([walk EXCEPT !.idx = @ + 1,
                             !.visited = Append(@, walk.idx + 1),
                             !.stack[Len(walk.stack)].nodes =
                                 Append(@, NodeOf(CurrentLine, <<>>))])

\* children, idx = build_tree(lines, idx + 1, indent): the call
Descend ==
    /\ Taken /\ ~parse_node_type(CurrentLine).raised /\ HasDeeperNext
    /\ WalkStep([walk EXCEPT !.idx = @ + 1,
                             !.visited = Append(@, walk.idx + 1),
                             !.stack = Append([@ EXCEPT ![Len(walk.stack)].open = CurrentLine],
                                              Frame(walk.idx + 1, get_indent(CurrentLine)))])

\* the loop of the running call is over: at the end of the lines, or at
\* a line that belongs to a caller
LoopOver ==
    /\ walk.status = "walking"
    /\ IF walk.idx >= Len(walk.lines) THEN TRUE
       ELSE /\ ~CurrentLine.blank
            /\ get_indent(CurrentLine) <= Top.parent_indent /\ walk.idx > Top.start_idx

\* return nodes, idx to the calling build_tree, which appends the node of
\* the line it had read
ReturnToCaller ==
    /\ LoopOver /\ Len(walk.stack) > 1
    /\ LET caller == walk.stack[Len(walk.stack) - 1]
           back == [caller EXCEPT !.nodes = Append(@, NodeOf(caller.open, Top.nodes)),
                                  !.open = BlankLine]
       IN  WalkStep([walk EXCEPT !.stack = Append(SubSeq(@, 1, Len(@) - 2), back)])

\* return of the outermost call, and the wrapping of the top-level nodes
ReturnTree ==
    /\ LoopOver /\ Len(walk.stack) = 1
    /\ WalkStep([walk EXCEPT
           !.status = "returned",
           !.tree = IF Top.nodes = <<>> THEN None
                    ELSE IF Len(Top.nodes) = 1 THEN Some(Top.nodes[1])
                    ELSE Some(PlanNode("Query", None, None, NoDetails, Top.nodes))])

NextWalk == SkipBlank \/ Fail \/ Leaf \/ Descend \/ ReturnToCaller \/ ReturnTree

\* build_tree is sequential code: it takes its next step whenever it has one
SpecWalk == InitWalk /\ [][NextWalk]_vars /\ WF_vars(NextWalk)

----------------------------------------------------------------------------
(* editor_snippets/api.py: get_snippets and save_snippets over the         *)
(* key-value store.  KeyValueDAO is a collaborator: find_one_or_none       *)
(* gives the entry of a resource and a user, update changes an entry,      *)
(* create adds one; each of them may raise.  The handler gives create no   *)
(* key, so the store adds the entry whatever it already holds.  When two   *)
(* entries match, find_one_or_none raises or gives one of them.            *)

RESOURCE_NAME == "editor_snippets"

\* current_user.id of the authenticated users
Users == {1, 2}

SnippetLists == {<<>>, <<"log">>, <<"for", "log">>}

\* json.dumps of a list of strings: the text, one token per element
RECURSIVE json_dumps_from(_, _)
json_dumps_from(snippets, i) ==
    IF i > Len(snippets) THEN <<"]">>
    ELSE (IF i = 1 THEN <<>> ELSE <<",">>) \o <<snippets[i]>> \o json_dumps_from(snippets, i + 1)

json_dumps(snippets) == <<"[">> \o json_dumps_from(snippets, 1)

\* json.loads of such a text: the elements between the brackets and commas
json_loads(text) ==
    LET n == (Len(text) - 1) \div 2
    IN  [k \in 1..n |-> text[2 * k]]

\* request.json of a PUT: an object with or without "snippets", or
\* something .get cannot be called on
Bodies ==
    {[kind |-> "object", snippets |-> Some(l)] : l \in SnippetLists}
        \cup {[kind |-> "object", snippets |-> None], [kind |-> "not_object", snippets |-> None]}

NoBody == [kind |-> "none", snippets |-> None]

\* a request as it arrives: user_id is None when current_user is not
\* authenticated; touched tells whether the request called the store
Arrival(op, user_id, body) ==
    [op |-> op, user_id |-> user_id, body |-> body, pc |-> "auth", value |-> <<>>,
     entry |-> None, touched |-> FALSE, response |-> None]

Arrivals ==
    {Arrival("get", u, NoBody) : u \in {None} \cup {Some(i) : i \in Users}}
        \cup {Arrival("save", u, b) : u \in {None} \cup {Some(i) : i \in Users}, b \in Bodies}

SnippetsResponse(status, message, snippets) ==
    [status |-> status, message |-> message, snippets |-> snippets]

Entry(resource, value, created_by_fk) ==
    [resource |-> resource, value |-> value, created_by_fk |-> created_by_fk]

\* the entries a call of find_one_or_none matches
Matching(resource, created_by_fk) ==
    {i \in 1..Len(store) :
        store[i].resource = resource /\ store[i].created_by_fk = created_by_fk}

\* what KeyValueDAO.find_one_or_none may give: an exception, None, or a
\* matching entry
Found(resource, created_by_fk) ==
    LET hits == Matching(resource, created_by_fk)
    IN  {[raised |-> TRUE, entry |-> None]}
            \cup (IF hits = {} THEN {[raised |-> FALSE, entry |-> None]}
                  ELSE {[raised |-> FALSE, entry |-> Some(i)] : i \in hits})

\* requests received in one run
MaxRequests == 3

\* requests received while others are being handled
MaxConcurrent == 3

InitSnippets ==
    /\ NoDedup /\ NoCalls /\ NoRequest /\ NoWalk
    /\ parser_used = "none" /\ parse_input = None /\ outcome = None
    /\ args = NoArgs /\ level = "pending"
    /\ store = <<>>
    /\ reqs = <<>>
    /\ saved = [u \in Users |-> None]

SnippetStep(r, frame, entries, last) ==
    /\ reqs' = [reqs EXCEPT ![r] = frame]
    /\ store' = entries
    /\ saved' = last
    /\ UNCHANGED <<dedup_vars, args, level, parse_vars, estimate_vars, shared_vars, walk>>

Answer(r, answer) ==
    SnippetStep(r, [reqs[r] EXCEPT !.pc = "done", !.response = Some(answer)], store, saved)

\* a request arrives while no other request is being handled
ArriveAlone ==
    /\ Len(reqs) < MaxRequests
    /\ \A r \in 1..Len(reqs) : reqs[r].pc = "done"
    /\ \E a \in Arrivals : reqs' = Append(reqs, a)
    /\ UNCHANGED <<store, saved>>
    /\ UNCHANGED <<dedup_vars, args, level, parse_vars, estimate_vars, shared_vars, walk>>

\* a request arrives, whatever the other requests are doing
Arrive ==
    /\ Len(reqs) < MaxConcurrent
    /\ \E a \in Arrivals : reqs' = Append(reqs, a)
    /\ UNCHANGED <<store, saved>>
    /\ UNCHANGED <<dedup_vars, args, level, parse_vars, estimate_vars, shared_vars, walk>>

\* if user_id is None: return self.response(401, ...), in both handlers
Unauthenticated(r) ==
    /\ reqs[r].pc = "auth" /\ reqs[r].user_id = None
    /\ Answer(r, SnippetsResponse(401, "User not authenticated", None))

\* mutant: the entry is looked up by resource alone
get_snippets_any_user(r) ==
    /\ reqs[r].pc = "auth" /\ reqs[r].op = "get" /\ reqs[r].user_id # None
    /\ \E f \in UNION {Found(RESOURCE_NAME, u) : u \in Users} :
          LET answer ==
                  IF f.raised THEN SnippetsResponse(500, "Failed to load snippets", None)
                  ELSE IF f.entry = None THEN SnippetsResponse(200, "", Some(<<>>))
                  ELSE SnippetsResponse(200, "", Some(json_loads(store[f.entry.v].value)))
          IN  SnippetStep(r, [reqs[r] EXCEPT !.pc = "done", !.touched = TRUE,
                                             !.response = Some(answer)], store, saved)

\* get_snippets of an authenticated user: the whole try block
get_snippets(r) ==
    /\ reqs[r].pc = "auth" /\ reqs[r].op = "get" /\ reqs[r].user_id # None
    /\ \E f \in Found(RESOURCE_NAME, reqs[r].user_id.v) :
          LET answer ==
                  IF f.raised THEN SnippetsResponse(500, "Failed to load snippets", None)
                  ELSE IF f.entry = None THEN SnippetsResponse(200, "", Some(<<>>))
                  ELSE SnippetsResponse(200, "", Some(json_loads(store[f.entry.v].value)))
          IN  SnippetStep(r, [reqs[r] EXCEPT !.pc = "done", !.touched = TRUE,
                                             !.response = Some(answer)], store, saved)

\* snippets = request.json.get("snippets", []); value = json.dumps(snippets)
SaveRead(r) ==
    /\ reqs[r].pc = "auth" /\ reqs[r].op = "save" /\ reqs[r].user_id # None
    /\ IF reqs[r].body.kind # "object"
       THEN Answer(r, SnippetsResponse(500, "Failed to save snippets", None))
       ELSE SnippetStep(r, [reqs[r] EXCEPT
                                !.pc = "find",
                                !.value = json_dumps(IF reqs[r].body.snippets = None THEN <<>>
                                                     ELSE reqs[r].body.snippets.v)],
                        store, saved)

\* entry = KeyValueDAO.find_one_or_none(resource=..., created_by_fk=user_id)
SaveFind(r) ==
    /\ reqs[r].pc = "find"
    /\ \E f \in Found(RESOURCE_NAME, reqs[r].user_id.v) :
          IF f.raised
          THEN SnippetStep(r, [reqs[r] EXCEPT
                                   !.pc = "done", !.touched = TRUE,
                                   !.response = Some(SnippetsResponse(
                                                    500, "Failed to save snippets", None))],
                           store, saved)
          ELSE SnippetStep(r, [reqs[r] EXCEPT !.pc = "write", !.touched = TRUE,
                                              !.entry = f.entry],
                           store, saved)

\* KeyValueDAO.update of the entry found, or KeyValueDAO.create when none
\* was found; then the 200 response
SaveWrite(r) ==
    /\ reqs[r].pc = "write"
    /\ \/ Answer(r, SnippetsResponse(500, "Failed to save snippets", None))
       \/ SnippetStep(r, [reqs[r] EXCEPT
                              !.pc = "done",
                              !.response = Some(SnippetsResponse(200, "Snippets saved", None))],
                      IF reqs[r].entry # None
                      THEN [store EXCEPT ![reqs[r].entry.v].value = reqs[r].value]
                      ELSE Append(store, Entry(RESOURCE_NAME, reqs[r].value,
                                               reqs[r].user_id.v)),
                      [saved EXCEPT ![reqs[r].user_id.v] = Some(json_loads(reqs[r].value))])

Handle(r) ==
    \/ Unauthenticated(r)
    \/ get_snippets(r)
    \/ SaveRead(r)
    \/ SaveFind(r)
    \/ SaveWrite(r)

\* one request at a time
NextSnippets == ArriveAlone \/ \E r \in 1..Len(reqs) : Handle(r)

SpecSnippets == InitSnippets /\ [][NextSnippets]_vars

\* requests handled by concurrent workers
NextConcurrent == Arrive \/ \E r \in 1..Len(reqs) : Handle(r)

SpecConcurrent == InitSnippets /\ [][NextConcurrent]_vars

----------------------------------------------------------------------------
(* Vocabulary of the classifier properties: the four metric categories in  *)
(* the order the claims name them, and what it means for a category to     *)
(* exceed a tier's threshold.                                              *)

Categories == <<"memory", "time", "rows", "cost">>

Tiers == <<"medium", "high", "critical">>

Rank(l) == CASE l = "low" -> 0 [] l = "medium" -> 1 [] l = "high" -> 2 [] l = "critical" -> 3

Arg(a, c) ==
    CASE c = "memory" -> a.memory_bytes
      [] c = "time" -> a.time_ms
      [] c = "rows" -> a.rows
      [] c = "cost" -> a.cost

Present(a, c) == Arg(a, c).some

\* the value of category c strictly exceeds the threshold of tier t
Over(a, c, t) ==
    /\ Present(a, c)
    /\ CASE c = "memory" ->
              BytesGT(a.memory_bytes.v,
                      CASE t = "medium" -> MEMORY_THRESHOLD_MEDIUM
                        [] t = "high" -> MEMORY_THRESHOLD_HIGH
                        [] t = "critical" -> MEMORY_THRESHOLD_CRITICAL)
         [] c = "time" ->
              a.time_ms.v > (CASE t = "medium" -> TIME_THRESHOLD_MEDIUM
                               [] t = "high" -> TIME_THRESHOLD_HIGH
                               [] t = "critical" -> TIME_THRESHOLD_CRITICAL)
         [] c = "rows" ->
              a.rows.v > (CASE t = "medium" -> ROWS_THRESHOLD_MEDIUM
                            [] t = "high" -> ROWS_THRESHOLD_HIGH
                            [] t = "critical" -> ROWS_THRESHOLD_CRITICAL)
         [] c = "cost" ->
              a.cost.v > (CASE t = "medium" -> COST_THRESHOLD_MEDIUM
                            [] t = "high" -> COST_THRESHOLD_HIGH
                            [] t = "critical" -> COST_THRESHOLD_CRITICAL)

\* the value of category c equals the threshold of tier t, or is one above it
AtThreshold(a, c, t, d) ==
    /\ Present(a, c)
    /\ CASE c = "memory" ->
              a.memory_bytes.v =
                  Bytes((CASE t = "medium" -> MEMORY_THRESHOLD_MEDIUM
                           [] t = "high" -> MEMORY_THRESHOLD_HIGH
                           [] t = "critical" -> MEMORY_THRESHOLD_CRITICAL).hi, d)
         [] c = "time" ->
              a.time_ms.v = d + (CASE t = "medium" -> TIME_THRESHOLD_MEDIUM
                                   [] t = "high" -> TIME_THRESHOLD_HIGH
                                   [] t = "critical" -> TIME_THRESHOLD_CRITICAL)
         [] c = "rows" ->
              a.rows.v = d + (CASE t = "medium" -> ROWS_THRESHOLD_MEDIUM
                                [] t = "high" -> ROWS_THRESHOLD_HIGH
                                [] t = "critical" -> ROWS_THRESHOLD_CRITICAL)
         [] c = "cost" ->
              a.cost.v = d + (CASE t = "medium" -> COST_THRESHOLD_MEDIUM
                                [] t = "high" -> COST_THRESHOLD_HIGH
                                [] t = "critical" -> COST_THRESHOLD_CRITICAL)

Triggers(a, c) == \E i \in 1..3 : Over(a, c, Tiers[i])

\* the highest tier whose threshold category c exceeds ("low" when none)
TopTier(a, c) ==
    LET over == {i \in 1..3 : Over(a, c, Tiers[i])}
    IN  IF over = {} THEN "low"
        ELSE Tiers[CHOOSE i \in over : \A j \in over : j <= i]

Classified == level # "pending"

\* C1 (as stated): when the first present category, in the order memory,
\* time, rows, cost, exceeds none of its thresholds, evaluation stops there
\* and the result is LOW whatever the later categories hold.
C1_StopsAtPresentCategory ==
    Classified =>
        \A i \in 1..4 :
            ( /\ Present(args, Categories[i])
              /\ ~Triggers(args, Categories[i])
              /\ \A j \in 1..(i - 1) : ~Present(args, Categories[j]) )
            => level = "low"

\* C1 (amended): a category that is present but exceeds none of its
\* thresholds does not end the evaluation: when no earlier category
\* triggered, the result is the tier of the first later category that
\* exceeds a threshold, and LOW only when no later category does.
C1_FallsThroughPresentCategory ==
    Classified =>
        \A i \in 1..4 :
            ( /\ Present(args, Categories[i])
              /\ ~Triggers(args, Categories[i])
              /\ \A j \in 1..(i - 1) : ~Triggers(args, Categories[j]) )
            => LET later == {k \in (i + 1)..4 : Triggers(args, Categories[k])}
               IN  IF later = {} THEN level = "low"
                   ELSE level = TopTier(args,
                                   Categories[CHOOSE k \in later : \A m \in later : k <= m])

\* memory present and at most 50 GiB, rows above 1e9: the result is CRITICAL
C1_Witness ==
    /\ Classified
    /\ Present(args, "memory") /\ ~Triggers(args, "memory")
    /\ ~Present(args, "time")
    /\ Over(args, "rows", "critical")
    /\ level = "critical"

\* C2: the result is the tier of the first category, in the order memory,
\* time, rows, cost, that is present and exceeds one of its thresholds,
\* whatever the later categories hold.
C2_FirstTriggeringCategoryWins ==
    Classified =>
        \A i \in 1..4 :
            ( /\ Triggers(args, Categories[i])
              /\ \A j \in 1..(i - 1) : ~Triggers(args, Categories[j]) )
            => level = TopTier(args, Categories[i])

\* memory triggers HIGH, rows would trigger CRITICAL: the result is HIGH
C2_Witness ==
    /\ Classified
    /\ TopTier(args, "memory") = "high"
    /\ TopTier(args, "rows") = "critical"
    /\ level = "high"

\* C3: with a single category present, the result is the highest tier whose
\* threshold the value strictly exceeds; a value equal to a threshold stays
\* below that tier and a value one unit above it reaches the tier.
C3_StrictThresholdsWithinCategory ==
    Classified =>
        \A i \in 1..4 :
            (\A j \in (1..4) \ {i} : ~Present(args, Categories[j]))
            => /\ level = TopTier(args, Categories[i])
               /\ \A t \in 1..3 :
                    /\ AtThreshold(args, Categories[i], Tiers[t], 0)
                           => Rank(level) = t - 1
                    /\ AtThreshold(args, Categories[i], Tiers[t], 1)
                           => Rank(level) = t

\* memory alone, exactly 200 GiB: the result is MEDIUM, not HIGH
C3_Witness ==
    /\ Classified
    /\ args.memory_bytes = Some(MEMORY_THRESHOLD_HIGH)
    /\ \A c \in {"time", "rows", "cost"} : ~Present(args, c)
    /\ level = "medium"

\* C4: the result is LOW exactly when no present metric strictly exceeds
\* the MEDIUM threshold of its category; with all four absent it is LOW.
C4_LowIffNothingOverMedium ==
    Classified =>
        /\ level = "low" <=> \A i \in 1..4 : ~Over(args, Categories[i], "medium")
        /\ (\A i \in 1..4 : ~Present(args, Categories[i])) => level = "low"

\* all four inputs absent: LOW
C4_Witness ==
    /\ Classified
    /\ \A i \in 1..4 : ~Present(args, Categories[i])
    /\ level = "low"

----------------------------------------------------------------------------
(* Properties of the parsers.                                             *)

Parsed == outcome # None

\* all metrics absent, no warnings, no plan tree
FullyDegraded(result) ==
    /\ result.metrics.execution_time_ms = None
    /\ result.metrics.planning_time_ms = None
    /\ result.metrics.memory_bytes = None
    /\ result.metrics.rows_estimated = None
    /\ result.metrics.cost = None
    /\ result.warnings = <<>>
    /\ result.plan_tree = None

\* C5: for both parsers and every input, parse returns a result (no
\* exception leaves parse), and whenever interpreting the output failed
\* (the except block ran) the result is fully degraded: all metrics absent,
\* no warnings, no plan tree.
C5_ParseFailuresFullyAbsorbed ==
    Parsed =>
        /\ ~outcome.v.raised
        /\ outcome.v.logged => FullyDegraded(outcome.v.result.v)

----------------------------------------------------------------------------
(* Properties of the estimate handler.                                     *)

Made(e) == \E i \in 1..Len(events) : events[i] = e

Count(e) == Cardinality({i \in 1..Len(events) : events[i] = e})

Done == pc = "done"

\* the request body is an object without "sql" or without "databaseId"
MissingInput ==
    /\ request # None
    /\ request.v.kind = "dict"
    /\ request.v.sql = None \/ request.v.databaseId = None

\* C6: a request missing the SQL text or the database id makes no external
\* call (no database lookup, no EXPLAIN execution, no parse) and ends with
\* a 400 response.
C6_MissingInputRejectedFirst ==
    MissingInput =>
        /\ ~Made("lookup") /\ ~Made("execute") /\ ~Made("parse")
        /\ Done => response.v.status = 400

\* sql given, databaseId missing: 400 and nothing but the response happened
C6_Witness ==
    /\ Done
    /\ request.v.kind = "dict" /\ request.v.sql = Some("SELECT 1")
    /\ request.v.databaseId = None
    /\ response.v.status = 400
    /\ events = <<"respond">>

\* the lookup itself raised
LookupRaised == exc = Some("database directory unavailable")

\* the lookup returned and found no database
DatabaseNotFound == Made("lookup") /\ database = None /\ ~LookupRaised

\* C7: when the database id resolves to no database the request ends with
\* 404 and the execution collaborator and the parser are never invoked.
C7_UnknownDatabaseIs404 ==
    DatabaseNotFound =>
        /\ Done /\ response.v.status = 404
        /\ ~Made("execute") /\ ~Made("parse")

C7_Witness ==
    /\ Done /\ DatabaseNotFound
    /\ response.v.status = 404
    /\ events = <<"lookup", "respond">>

\* C8: a resolved database whose backend is detected as UNKNOWN is answered
\* with the unsupported-engine error (400) naming the backend, before
\* get_parser is called and before any EXPLAIN is issued; get_parser is only
\* ever called for TRINO or POSTGRES.
C8_UnknownEngineRejected ==
    /\ engine = "unknown" =>
          /\ Done /\ response.v.status = 400
          /\ response.v.backend = database.v.backend
          /\ ~Made("get_parser") /\ ~Made("execute") /\ ~Made("parse")
    /\ Made("get_parser") => engine \in {"trino", "postgres"}
    /\ parser_used # "none" => engine \in {"trino", "postgres"}

\* backend "sqlite": rejected by name with no parser chosen
C8_Witness ==
    /\ Done
    /\ database = Some([backend |-> Some(<<"s", "q", "l", "i", "t", "e">>)])
    /\ engine = "unknown"
    /\ response.v.status = 400
    /\ response.v.backend = Some(<<"s", "q", "l", "i", "t", "e">>)
    /\ parser_used = "none"

\* a result set that holds rows (or an object that is no DataFrame)
NonEmptyResultSet(d) ==
    /\ d.kind # "none"
    /\ ~(d.kind = "frame" /\ d.output.shape = "empty_list")

\* no statements, no data, or only empty result sets
EmptyOutput(result) ==
    \A i \in 1..Len(result.statements) : ~NonEmptyResultSet(result.statements[i])

\* C9: parse is invoked only when the execution reported success with at
\* least one non-empty result set; an execution failure or empty output
\* (no statements, no data, an empty result set) ends the request with 500
\* carrying the collaborator's error message when present and a generic
\* fallback message otherwise.
C9_ParseOnlyOnNonEmptySuccess ==
    /\ Made("parse") =>
          /\ exec_result.v.status = "success"
          /\ ~EmptyOutput(exec_result.v)
    /\ (Done /\ exec_result # None /\ exc = None
          /\ (exec_result.v.status # "success" \/ EmptyOutput(exec_result.v))) =>
          /\ response.v.status = 500
          /\ IF /\ exec_result.v.status # "success"
                /\ exec_result.v.error_message # None
                /\ exec_result.v.error_message.v # ""
             THEN response.v.message = exec_result.v.error_message.v
             ELSE response.v.message \in {"EXPLAIN query failed", "No EXPLAIN output received"}

\* C10: every invocation ends with exactly one response: at most one
\* response is ever sent, a request that is not finished can always take its
\* next step, a finished one has sent exactly one response, and an
\* exception raised at any step is reported as 500 with its message.
C10_ExactlyOneResponse ==
    /\ Count("respond") <= 1
    /\ pc \in {"start", "validate", "lookup", "detect", "execute", "check", "parse",
               "respond", "except", "done"}
    /\ ~Done => (response = None /\ Count("respond") = 0 /\ ENABLED Next)
    /\ Done => (response # None /\ Count("respond") = 1)
    /\ (Done /\ exc # None) => (response.v.status = 500 /\ response.v.message = exc.v)

\* parse raised, and the request still ended with a 500 carrying the message
C10_Witness ==
    /\ Done
    /\ outcome # None /\ outcome.v.raised
    /\ exc # None
    /\ response.v.status = 500 /\ response.v.message = exc.v
    /\ Count("respond") = 1

----------------------------------------------------------------------------
(* Properties of deduplicate_warnings.                                     *)

Deduplicated == dedup_result # None

Titles(ws) == {ws[i].title : i \in 1..Len(ws)}

\* positions of ws that hold the first warning of their title
FirstPositions(ws) == {i \in 1..Len(ws) : \A j \in 1..(i - 1) : ws[j].title # ws[i].title}

\* the warnings of ws at the positions in P, in the order of ws
Pick(ws, P) ==
    LET f == CHOOSE g \in [1..Cardinality(P) -> P] :
                 \A a, b \in 1..Cardinality(P) : a < b => g[a] < g[b]
    IN  [k \in 1..Cardinality(P) |-> ws[f[k]]]

\* C11: deduplicate_warnings returns exactly the first occurrence of each
\* distinct title (titles compared as they are written) in the original
\* order; no title of the input is lost, and applying it to its own result
\* changes nothing.
C11_FirstOccurrenceOfEachTitle ==
    Deduplicated =>
        /\ dedup_result.v = Pick(dedup_given, FirstPositions(dedup_given))
        /\ Titles(dedup_result.v) = Titles(dedup_given)
        /\ deduplicate_warnings(dedup_result.v) = dedup_result.v

\* "Scan" twice with different descriptions and "scan" once: the first
\* "Scan" and the "scan" remain
C11_Witness ==
    /\ Deduplicated
    /\ Len(dedup_given) = 3
    /\ dedup_given[1].title = "Scan" /\ dedup_given[1].description.text = "first"
    /\ dedup_given[2].title = "scan"
    /\ dedup_given[3].title = "Scan" /\ dedup_given[3].description.text = "second"
    /\ dedup_result.v = <<dedup_given[1], dedup_given[2]>>

----------------------------------------------------------------------------
(* Properties of PostgresParser.parse on a JSON plan.                      *)

\* PostgresParser.parse was called on a JSON plan tree and returned
PostgresPlanParsed ==
    /\ Parsed /\ parser_used = "PostgresParser" /\ ~outcome.v.raised
    /\ parse_input.v.shape = "rows_QUERY_PLAN"
    /\ parse_input.v.payload.kind = "jsontext"
    /\ parse_input.v.payload.doc.kind = "plan"

\* the root node of that plan, and the result
Plan == parse_input.v.payload.doc.plan

Result == outcome.v.result.v

ScanNodeTypes == {"Seq Scan", "Index Scan", "Index Only Scan", "Bitmap Heap Scan"}

IsScanNode(n) == n.node_type # None /\ n.node_type.v \in ScanNodeTypes

RECURSIVE SumOver(_, _)
SumOver(f, n) == IF n = 0 THEN 0 ELSE f[n] + SumOver(f, n - 1)

RECURSIVE ScanRows(_)
\* the sum of Plan Rows over the scan nodes of the tree under n
ScanRows(n) ==
    (IF IsScanNode(n) /\ n.plan_rows.kind = "int" THEN n.plan_rows.n ELSE 0)
        + SumOver([i \in 1..Len(n.plans) |-> ScanRows(n.plans[i])], Len(n.plans))

RECURSIVE Nodes(_)
\* the nodes of the tree under n
Nodes(n) == {n} \cup UNION {Nodes(n.plans[i]) : i \in 1..Len(n.plans)}

\* some scan node of the plan has Plan Rows that are no number
UnreadableScan == \E n \in Nodes(Plan) : IsScanNode(n) /\ n.plan_rows.kind = "bad"

\* C12 as stated: the estimated rows equal the sum of Plan Rows over the
\* scan nodes, for every plan tree.
C12_RowsAreScanSum ==
    (PostgresPlanParsed /\ ~UnreadableScan) =>
        Result.metrics.rows_estimated = Some(ScanRows(Plan))

\* C12: the estimated rows equal the sum of Plan Rows over exactly the
\* scan nodes (Seq Scan, Index Scan, Index Only Scan, Bitmap Heap Scan) at
\* every depth when that sum is positive; when it is zero (no scan node, or
\* scans of zero rows) or a scan node's Plan Rows cannot be read, the
\* estimated rows are absent.
C12_RowsAreScanSumWhenPositive ==
    PostgresPlanParsed =>
        Result.metrics.rows_estimated =
            IF ~UnreadableScan /\ ScanRows(Plan) > 0
            THEN Some(ScanRows(Plan))
            ELSE None

\* a Hash Join of 3000 rows over Seq Scans of 1000 and 2000 rows gives 3000
C12_Witness ==
    /\ PostgresPlanParsed
    /\ Plan.node_type = Some("Hash Join") /\ Plan.plan_rows = IntTok(3000)
    /\ Len(Plan.plans) = 2
    /\ Plan.plans[1].node_type = Some("Seq Scan") /\ Plan.plans[1].plan_rows = IntTok(1000)
    /\ Plan.plans[2].node_type = Some("Seq Scan") /\ Plan.plans[2].plan_rows = IntTok(2000)
    /\ Result.metrics.rows_estimated = Some(3000)

RECURSIVE PreOrder(_)
RECURSIVE PreOrderFrom(_, _)
\* the nodes of the tree under n, parents before children, children in order
PreOrder(n) == <<n>> \o PreOrderFrom(n.plans, 1)

PreOrderFrom(plans, i) ==
    IF i > Len(plans) THEN <<>> ELSE PreOrder(plans[i]) \o PreOrderFrom(plans, i + 1)

\* the nodes read before a scan node with unreadable Plan Rows ends the walk
Visited ==
    LET all == PreOrder(Plan)
        bad == {i \in 1..Len(all) : IsScanNode(all[i]) /\ all[i].plan_rows.kind = "bad"}
    IN  IF bad = {} THEN all
        ELSE SubSeq(all, 1, (CHOOSE i \in bad : \A j \in bad : i <= j) - 1)

LargeSeqScan(n) ==
    /\ n.node_type = Some("Seq Scan")
    /\ n.plan_rows.kind = "int" /\ n.plan_rows.n > 100000

RelationOf(n) == IF n.relation = None THEN "unknown" ELSE n.relation.v

WarningsTitled(title) ==
    {i \in 1..Len(Result.warnings) : Result.warnings[i].title = title}

Names(w, table) == \E k \in 1..Len(w.affected_tables) : w.affected_tables[k] = table

\* C13 as stated: every Seq Scan node of more than 100,000 rows has a
\* "Sequential Scan" warning naming its relation, and there is no such
\* warning without such a node.
C13_EverySeqScanNamed ==
    (PostgresPlanParsed /\ ~UnreadableScan) =>
        /\ \A n \in Nodes(Plan) :
              LargeSeqScan(n) =>
                  \E i \in WarningsTitled("Sequential Scan") :
                      Names(Result.warnings[i], RelationOf(n))
        /\ (~\E n \in Nodes(Plan) : LargeSeqScan(n)) => WarningsTitled("Sequential Scan") = {}

\* C13: the result carries a "Sequential Scan" warning exactly when some
\* Seq Scan node read by the parser has Plan Rows strictly above 100,000;
\* there is one such warning, of WARNING severity, and its affected tables
\* are the relation of the first such node in the order the tree is walked.
\* Seq Scans of 100,000 rows or fewer and scans of other types give none.
C13_FirstLargeSeqScanNamed ==
    PostgresPlanParsed =>
        LET large == {i \in 1..Len(Visited) : LargeSeqScan(Visited[i])}
            titled == WarningsTitled("Sequential Scan")
        IN  IF large = {} THEN titled = {}
            ELSE /\ Cardinality(titled) = 1
                 /\ \A i \in titled :
                       /\ Result.warnings[i].severity = "warning"
                       /\ Result.warnings[i].affected_tables =
                              <<RelationOf(Visited[CHOOSE k \in large : \A j \in large : k <= j])>>

\* large Seq Scans on orders and, one level down, on users: only orders is
\* named
C13_Witness ==
    /\ PostgresPlanParsed /\ ~UnreadableScan
    /\ \E n \in Nodes(Plan) : LargeSeqScan(n) /\ RelationOf(n) = "orders"
    /\ \E n \in Nodes(Plan) : LargeSeqScan(n) /\ RelationOf(n) = "users"
    /\ Cardinality(WarningsTitled("Sequential Scan")) = 1
    /\ \A i \in WarningsTitled("Sequential Scan") :
          Result.warnings[i].affected_tables = <<"orders">>

\* a Nested Loop node without a Join Filter key, or with an empty one
UnfilteredLoop(n) ==
    /\ n.node_type = Some("Nested Loop")
    /\ n.join_filter = None \/ n.join_filter = Some("")

\* C14: for a plan the parser reads to the end, the result contains a
\* "Cartesian Product" warning if and only if some Nested Loop node
\* anywhere in the tree has no Join Filter key or an empty one; the warning
\* has CRITICAL severity and there is at most one, however many nodes
\* qualify.
C14_CartesianProductIffUnfilteredLoop ==
    (PostgresPlanParsed /\ ~UnreadableScan) =>
        LET titled == WarningsTitled("Cartesian Product")
        IN  /\ (titled # {}) <=> (\E n \in Nodes(Plan) : UnfilteredLoop(n))
            /\ Cardinality(titled) <= 1
            /\ \A i \in titled : Result.warnings[i].severity = "critical"

\* two Nested Loop nodes qualify, one of them with an empty Join Filter,
\* and one warning is returned
C14_Witness ==
    /\ PostgresPlanParsed /\ ~UnreadableScan
    /\ Plan.node_type = Some("Nested Loop") /\ Plan.join_filter = Some("")
    /\ \E i \in 1..Len(Plan.plans) : UnfilteredLoop(Plan.plans[i])
    /\ Cardinality(WarningsTitled("Cartesian Product")) = 1

----------------------------------------------------------------------------
(* Properties of TrinoParser.parse on a plan text.                         *)

\* TrinoParser.parse was called on a plan text and returned
TrinoTextParsed ==
    /\ Parsed /\ parser_used = "TrinoParser" /\ ~outcome.v.raised
    /\ parse_input.v.shape = "rows_Query_Plan"
    /\ parse_input.v.payload.kind = "text"

\* the lines of that text
Text == parse_input.v.payload.lines

HasCrossJoin == \E i \in 1..Len(Text) : Text[i].cross

\* the first memory annotation or the first rows annotation of the text
\* holds no number
Unconvertible ==
    \/ \E i \in 1..Len(Text) :
          /\ Text[i].mem.kind = "bad"
          /\ \A j \in 1..(i - 1) : Text[j].mem.kind = "none"
    \/ \E i \in 1..Len(Text) :
          /\ Text[i].rows.kind = "bad"
          /\ \A j \in 1..(i - 1) : Text[j].rows.kind = "none"

ScanPositions == {i \in 1..Len(Text) : Text[i].scan.kind = "table"}

\* the matched identifiers in order of appearance
MatchedTables ==
    LET f == CHOOSE g \in [1..Cardinality(ScanPositions) -> ScanPositions] :
                 \A a, b \in 1..Cardinality(ScanPositions) : a < b => g[a] < g[b]
    IN  [k \in 1..Cardinality(ScanPositions) |-> Text[f[k]].scan.table]

HasConstraint == \E i \in 1..Len(Text) : Text[i].constraint

\* C16: for a text whose annotations convert, the result has a "Full Table
\* Scan" warning exactly when the text has at least one
\* TableScan[... table=<id>] match and no filterPredicate or constraint
\* token anywhere; its affected tables are the matched identifiers in order
\* of appearance, at most the first 3.
C16_FullTableScanIffUnconstrained ==
    (TrinoTextParsed /\ ~Unconvertible) =>
        LET titled == WarningsTitled("Full Table Scan")
            n == IF Len(MatchedTables) < 3 THEN Len(MatchedTables) ELSE 3
        IN  /\ (titled # {}) <=> (ScanPositions # {} /\ ~HasConstraint)
            /\ Cardinality(titled) <= 1
            /\ \A i \in titled :
                  Result.warnings[i].affected_tables = [k \in 1..n |-> MatchedTables[k]]

\* four scans of different tables: the first three are listed, in order
C16_Witness ==
    /\ TrinoTextParsed
    /\ Len(Text) = 4
    /\ MatchedTables = <<"users", "orders", "events", "items">>
    /\ \E i \in WarningsTitled("Full Table Scan") :
          Result.warnings[i].affected_tables = <<"users", "orders", "events">>

----------------------------------------------------------------------------
(* Properties of the dispatcher.                                           *)

\* character a is the letter b (a lower-case character) in either case
SameLetter(a, b) == a = b \/ \E k \in 1..26 : UpperCase[k] = a /\ LowerCase[k] = b

\* the identifier contains the word, whatever the case of its letters
HasWord(id, word) ==
    \E i \in 1..(Len(id) - Len(word) + 1) :
        \A k \in 1..Len(word) : SameLetter(id[i + k - 1], word[k])

\* detect_engine_type has returned
Detected == database # None /\ engine # "none"

BackendId == database.v.backend.v

\* C17: detect_engine_type returns TRINO for an identifier containing
\* "trino" or "presto" in any case, otherwise POSTGRES for one containing
\* "postgres" or "redshift", otherwise UNKNOWN; it returns for every
\* identifier.
C17_CaseInsensitiveSubstringClassifier ==
    /\ (database # None /\ engine = "none") => ENABLED DetectEngineType
    /\ Detected =>
          engine =
              IF \/ HasWord(BackendId, <<"t", "r", "i", "n", "o">>)
                 \/ HasWord(BackendId, <<"p", "r", "e", "s", "t", "o">>)
              THEN "trino"
              ELSE IF \/ HasWord(BackendId, <<"p", "o", "s", "t", "g", "r", "e", "s">>)
                      \/ HasWord(BackendId, <<"r", "e", "d", "s", "h", "i", "f", "t">>)
              THEN "postgres"
              ELSE "unknown"

\* "PrestoDB" is TRINO
C17_Witness ==
    /\ Detected
    /\ BackendId = <<"P", "r", "e", "s", "t", "o", "D", "B">>
    /\ engine = "trino"

\* C18: get_parser returns for every engine type: the Trino parser for
\* TRINO and UNKNOWN, the Postgres parser for POSTGRES; and every result a
\* parser returns carries that parser's own engine type.
C18_GetParserTotalAndLabelled ==
    /\ (engine # "none" /\ parser_used = "none") => ENABLED GetParser
    /\ parser_used # "none" =>
          /\ engine \in {"trino", "unknown"} => parser_used = "TrinoParser"
          /\ engine = "postgres" => parser_used = "PostgresParser"
    /\ (outcome # None /\ ~outcome.v.raised) =>
          outcome.v.result.v.engine_type =
              IF parser_used = "TrinoParser" THEN "trino" ELSE "postgres"

\* UNKNOWN gets the Trino parser, whose result is labelled TRINO
C18_Witness ==
    /\ engine = "unknown"
    /\ parser_used = "TrinoParser"
    /\ outcome # None /\ ~outcome.v.raised
    /\ outcome.v.result.v.engine_type = "trino"

----------------------------------------------------------------------------
(* Properties of the results of both parsers.                              *)

\* a parser was called and returned a result
Returns == Parsed /\ ~outcome.v.raised

RECURSIVE TreeNodes(_)
\* the PlanNodes of the tree under t
TreeNodes(t) == {t} \cup UNION {TreeNodes(t.children[i]) : i \in 1..Len(t.children)}

\* C19: every PlanNode of every plan tree returned by either parser has a
\* non-empty node type.
C19_NodeTypeNeverEmpty ==
    (Returns /\ Result.plan_tree # None) =>
        \A n \in TreeNodes(Result.plan_tree.v) : n.node_type # ""

\* the label is "N/A" exactly for an absent value, and the formatter's
\* label of the value otherwise
Paired(value, label, formatted) ==
    /\ (label = NA) <=> (value = None)
    /\ value # None => (label = formatted /\ label.of = value.v)

\* C20: in every result returned by either parser each metric is paired
\* with a label that is "N/A" if and only if the metric is absent; a
\* present value, zero included, has the label its formatter gives it.
C20_LabelIsNAIffAbsent ==
    Returns =>
        LET m == Result.metrics
        IN  /\ m.execution_time_ms = None /\ m.execution_time_label = NA
            /\ m.planning_time_ms = None /\ m.planning_time_label = NA
            /\ Paired(m.memory_bytes, m.memory_label, format_bytes(m.memory_bytes))
            /\ Paired(m.rows_estimated, m.rows_label, format_rows(m.rows_estimated))
            /\ Paired(m.cost, m.cost_label, format_cost(m.cost))

\* estimates of zero rows and zero bytes are present and labelled
C20_Witness ==
    /\ Returns /\ parser_used = "TrinoParser"
    /\ Result.metrics.rows_estimated = Some(0)
    /\ Result.metrics.rows_label = Label("", 0)
    /\ Result.metrics.memory_bytes = Some(Bytes(0, 0))
    /\ Result.metrics.memory_label = Label("B", Bytes(0, 0))
    /\ Result.metrics.cost = None /\ Result.metrics.cost_label = NA

----------------------------------------------------------------------------
(* Threshold warnings and the classifier's thresholds.                     *)

\* the highest tier of the classifier that an optional number exceeds
TierOf(value, medium, high, critical) ==
    IF value = None THEN "low"
    ELSE IF value.v > critical THEN "critical"
    ELSE IF value.v > high THEN "high"
    ELSE IF value.v > medium THEN "medium"
    ELSE "low"

MemoryTier ==
    LET m == Result.metrics.memory_bytes
    IN  IF m = None THEN "low"
        ELSE IF BytesGT(m.v, MEMORY_THRESHOLD_CRITICAL) THEN "critical"
        ELSE IF BytesGT(m.v, MEMORY_THRESHOLD_HIGH) THEN "high"
        ELSE IF BytesGT(m.v, MEMORY_THRESHOLD_MEDIUM) THEN "medium"
        ELSE "low"

RowsTier ==
    TierOf(Result.metrics.rows_estimated, ROWS_THRESHOLD_MEDIUM, ROWS_THRESHOLD_HIGH,
           ROWS_THRESHOLD_CRITICAL)

CostTier ==
    TierOf(Result.metrics.cost, COST_THRESHOLD_MEDIUM, COST_THRESHOLD_HIGH,
           COST_THRESHOLD_CRITICAL)

\* the threshold warnings of each metric: <<title at CRITICAL, title at HIGH>>
MemoryTitles == <<"Excessive Memory Estimate", "High Memory Estimate">>

RowsTitles == <<"Very Large Result Set", "Large Result Set">>

CostTitles == <<"Very High Cost Query", "High Cost Query">>

WarningsOf(titles) ==
    {i \in 1..Len(Result.warnings) : Result.warnings[i].title \in {titles[1], titles[2]}}

\* a warning of the metric exactly when a threshold is exceeded
WarnedAtEveryTier(tier, titles) ==
    /\ (WarningsOf(titles) # {}) <=> (tier # "low")
    /\ Cardinality(WarningsOf(titles)) <= 1

\* one warning at CRITICAL and at HIGH, with the title and severity of the
\* tier, and none at MEDIUM and below
WarnedFromHigh(tier, titles) ==
    LET ws == WarningsOf(titles)
    IN  IF tier = "critical"
        THEN /\ Cardinality(ws) = 1
             /\ \A i \in ws : /\ Result.warnings[i].title = titles[1]
                              /\ Result.warnings[i].severity = "critical"
        ELSE IF tier = "high"
        THEN /\ Cardinality(ws) = 1
             /\ \A i \in ws : /\ Result.warnings[i].title = titles[2]
                              /\ Result.warnings[i].severity = "warning"
        ELSE ws = {}

----------------------------------------------------------------------------
(* Calls of parse that share a parser instance.                            *)

\* a parser instance is being shared by the threads
Sharing == DOMAIN calls = Threads

\* C22: whatever the interleaving of two parse calls on one parser
\* instance, each call gives what the same call gives when it runs alone:
\* no call sees the warnings, metrics or tree of the other.
C22_ParseCallsAreIsolated ==
    Sharing =>
        \A t \in Threads :
            calls[t].pc = "done" =>
                calls[t].result = Some(parse(parser_used, calls[t].explain_output, "raw"))

\* both calls are in the middle of parse with lists of their own, the
\* list of one already holding a warning, on different inputs
C22_Witness ==
    /\ Sharing
    /\ calls["a"].pc = "threshold" /\ calls["b"].pc = "parse_plan"
    /\ calls["a"].explain_output # calls["b"].explain_output
    /\ calls["a"].warnings # calls["b"].warnings
    /\ lists[calls["a"].warnings] # <<>>
    /\ lists[calls["b"].warnings] = <<>>

----------------------------------------------------------------------------
(* The plan tree TrinoParser builds from the indentation of a plan text.   *)

\* the try block of TrinoParser.parse ran to its end on a plan text
TreeBuilt == TrinoTextParsed /\ ~outcome.v.logged

NonBlank(text) == {i \in 1..Len(text) : ~text[i].blank}

\* the nearest preceding non-blank line with strictly smaller indentation,
\* 0 when there is none
NearestShallower(text, i) ==
    LET before == {j \in NonBlank(text) : j < i /\ text[j].indent < text[i].indent}
    IN  IF before = {} THEN 0 ELSE CHOOSE j \in before : \A k \in before : k <= j

RECURSIVE Ascending(_)
\* the numbers of a set in ascending order
Ascending(S) ==
    IF S = {} THEN <<>>
    ELSE LET least == CHOOSE i \in S : \A j \in S : i <= j
         IN  <<least>> \o Ascending(S \ {least})

RECURSIVE NodeByIndent(_, _)
RECURSIVE ForestByIndent(_, _)
\* the node of line i with, as children, the lines whose nearest shallower
\* line is i; ForestByIndent(text, 0) is the top level
ForestByIndent(text, i) ==
    LET kids == Ascending({j \in NonBlank(text) : NearestShallower(text, j) = i})
    IN  [k \in 1..Len(kids) |-> NodeByIndent(text, kids[k])]

NodeByIndent(text, i) ==
    LET parsed == parse_node_type(text[i])
    IN  PlanNode(parsed.node_type, parsed.details.rows, None, parsed.details,
                 ForestByIndent(text, i))

\* the top-level nodes of a returned tree
TopLevel(tree) ==
    IF tree = None THEN <<>>
    ELSE IF tree.v.node_type = "Query" THEN tree.v.children
    ELSE <<tree.v>>

\* C23: every non-blank line's node is a child of the nearest preceding
\* non-blank line with strictly smaller indentation, and top-level when
\* there is none, blank lines and an indented first line included.
C23_ChildOfNearestShallowerLine ==
    TreeBuilt => TopLevel(Result.plan_tree) = ForestByIndent(Text, 0)

\* the same on texts without a blank line between two lines and without
\* indentation of the first line
NoInnerBlank(text) ==
    \A i \in 1..Len(text) :
        text[i].blank => (\A j \in NonBlank(text) : j < i) \/ (\A j \in NonBlank(text) : j > i)

FirstLineFlush(text) ==
    \A i \in NonBlank(text) : (\A j \in NonBlank(text) : i <= j) => text[i].indent = 0

TreeFollowsIndentOnPlainTexts ==
    (TreeBuilt /\ NoInnerBlank(Text) /\ FirstLineFlush(Text)) =>
        TopLevel(Result.plan_tree) = ForestByIndent(Text, 0)

\* the top-level nodes the plan text yields: what build_tree(lines, 0, -1)
\* returns
Yielded == build_tree(StripSplit(Text), 0, -1).nodes

\* C24: _build_plan_tree returns the only top-level node unwrapped,
\* a "Query" node over the top-level nodes in text order when there are two
\* or more, and no tree when there is none.
C24_QueryRootOnlyOverSeveral ==
    TreeBuilt =>
        /\ Len(Yielded) = 0 => Result.plan_tree = None
        /\ Len(Yielded) = 1 => Result.plan_tree = Some(Yielded[1])
        /\ Len(Yielded) >= 2 =>
              /\ Result.plan_tree # None
              /\ Result.plan_tree.v.node_type = "Query"
              /\ Result.plan_tree.v.children = Yielded
              /\ Result.plan_tree.v.rows = None

\* one line with a child line is returned as it is
C24_Witness ==
    /\ TreeBuilt
    /\ Len(Yielded) = 1 /\ Len(Yielded[1].children) = 1
    /\ Result.plan_tree = Some(Yielded[1])
    /\ Result.plan_tree.v.node_type # "Query"

----------------------------------------------------------------------------
(* The order of the steps of one estimate request.                         *)

\* the calls of the handler in the order of the steps
StepOrder ==
    <<"lookup", "detect", "get_parser", "get_explain_sql", "execute", "parse", "respond">>

StepOf(e) == CHOOSE i \in 1..Len(StepOrder) : StepOrder[i] = e

\* every call made is a later step than the calls made before it, so no
\* call is made twice
InStepOrder ==
    \A i, j \in 1..Len(events) : i < j => StepOf(events[i]) < StepOf(events[j])

\* validation, lookup and engine detection passed
ChecksPassed ==
    /\ request # None /\ ~MissingInput
    /\ Made("lookup") /\ database # None
    /\ Made("detect") /\ engine \in {"trino", "postgres"}
    /\ Made("get_explain_sql") /\ explain_sql # None

RECURSIVE SameTree(_, _)
\* the serialized tree d holds the fields of PlanNode n, children included
SameTree(d, n) ==
    /\ d.nodeType = n.node_type /\ d.rows = n.rows /\ d.cost = n.cost
    /\ d.details = n.details
    /\ Len(d.children) = Len(n.children)
    /\ \A i \in 1..Len(n.children) : SameTree(d.children[i], n.children[i])

\* the body holds every field of the parse result r, unchanged
AsIs(body, r) ==
    /\ body.resourceLevel = r.resource_level
    /\ body.engineType = r.engine_type
    /\ body.rawPlan = r.raw_plan
    /\ body.metrics.memoryBytes = r.metrics.memory_bytes
    /\ body.metrics.memoryLabel = r.metrics.memory_label
    /\ body.metrics.rowsEstimated = r.metrics.rows_estimated
    /\ body.metrics.rowsLabel = r.metrics.rows_label
    /\ body.metrics.cost = r.metrics.cost
    /\ body.metrics.costLabel = r.metrics.cost_label
    /\ body.metrics.executionTimeMs = r.metrics.execution_time_ms
    /\ body.metrics.executionTimeLabel = r.metrics.execution_time_label
    /\ body.metrics.planningTimeMs = r.metrics.planning_time_ms
    /\ body.metrics.planningTimeLabel = r.metrics.planning_time_label
    /\ Len(body.warnings) = Len(r.warnings)
    /\ \A i \in 1..Len(r.warnings) :
          /\ body.warnings[i].severity = r.warnings[i].severity
          /\ body.warnings[i].title = r.warnings[i].title
          /\ body.warnings[i].description = r.warnings[i].description
          /\ body.warnings[i].recommendation = r.warnings[i].recommendation
          /\ body.warnings[i].affectedTables = r.warnings[i].affected_tables
    /\ (body.planTree = None) <=> (r.plan_tree = None)
    /\ r.plan_tree # None => SameTree(body.planTree.v, r.plan_tree.v)

\* C25: the calls of one estimate request are made in the order lookup,
\* detect, get_parser, get_explain_sql, execute, parse, respond, each at
\* most once; execute only after validation, lookup and detection passed;
\* parse only after execute returned; a 200 response only after parse
\* returned, with the parse result as its body, field by field.
C25_StepsInOrderAndResultAsIs ==
    /\ InStepOrder
    /\ Made("execute") => ChecksPassed
    /\ Made("parse") =>
          /\ Made("execute") /\ exec_result # None /\ exec_result.v.status = "success"
          /\ outcome # None
    /\ (response # None /\ response.v.status = 200) =>
          /\ Made("parse") /\ outcome # None /\ ~outcome.v.raised
          /\ response.v.result # None
          /\ AsIs(response.v.result.v, outcome.v.result.v)

\* a request that went through every step and answered 200 with a result
\* that carries a warning and a plan tree
C25_Witness ==
    /\ Done /\ events = StepOrder
    /\ response.v.status = 200
    /\ outcome.v.result.v.warnings # <<>>
    /\ outcome.v.result.v.plan_tree # None
    /\ AsIs(response.v.result.v, outcome.v.result.v)

----------------------------------------------------------------------------
(* Threshold warnings and the resource level of one result.                *)

ThresholdTitles ==
    {MemoryTitles[1], MemoryTitles[2], RowsTitles[1], RowsTitles[2],
     CostTitles[1], CostTitles[2]}

ResultTitles == {Result.warnings[i].title : i \in 1..Len(Result.warnings)}

\* C26: a result that carries a threshold warning has a resource level
\* other than LOW, and one that carries a memory threshold warning has
\* level HIGH or CRITICAL.
C26_ThresholdWarningRaisesLevel ==
    Returns =>
        /\ ResultTitles \cap ThresholdTitles # {} => Result.resource_level # "low"
        /\ ResultTitles \cap {MemoryTitles[1], MemoryTitles[2]} # {} =>
              Result.resource_level \in {"high", "critical"}

\* a rows warning on a result whose memory is reported and exceeds no
\* threshold: the level comes from the rows
C26_Witness ==
    /\ Returns
    /\ Result.metrics.memory_bytes # None /\ MemoryTier = "low"
    /\ RowsTitles[2] \in ResultTitles
    /\ Result.resource_level = "high"

----------------------------------------------------------------------------
(* The walk of build_tree over the lines.                                  *)

Walking == walk.status = "walking"

WalkReturned == walk.status = "returned"

RECURSIVE NodesInPreOrder(_)
RECURSIVE ForestInPreOrder(_, _)
\* the node types under n, parents before children, children in order
NodesInPreOrder(n) == <<n.node_type>> \o ForestInPreOrder(n.children, 1)

ForestInPreOrder(nodes, i) ==
    IF i > Len(nodes) THEN <<>>
    ELSE NodesInPreOrder(nodes[i]) \o ForestInPreOrder(nodes, i + 1)

\* the node types of the lines, blank lines left out, in text order
LinesInTextOrder(lines) ==
    LET at == Ascending(NonBlank(lines))
    IN  [k \in 1..Len(at) |-> lines[at[k]].node]

\* an iteration of the loop moves idx forward, a return leaves it where
\* it is
IndexAdvances ==
    (Walking /\ walk'.status = "walking") =>
        /\ walk'.idx >= walk.idx
        /\ Len(walk'.stack) >= Len(walk.stack) => walk'.idx > walk.idx

\* every non-blank line was read once, in order, and is one node
EachLineOnce ==
    WalkReturned =>
        /\ walk.visited = Ascending(NonBlank(walk.lines))
        /\ Len(ForestInPreOrder(TopLevel(walk.tree), 1)) = Cardinality(NonBlank(walk.lines))
        /\ ForestInPreOrder(TopLevel(walk.tree), 1) = LinesInTextOrder(walk.lines)

\* C27: build_tree terminates on every sequence of lines: each loop
\* iteration moves the line index forward and no return moves it back;
\* the returned tree has one non-synthetic node per non-blank line, and
\* its pre-order is the text order of the lines.
C27_WalkerTerminatesReadingEachLineOnce ==
    /\ [][IndexAdvances]_vars
    /\ []EachLineOnce
    /\ <>(~Walking)

\* a walk that went into a recursive call, came back and returned one
\* root with two children, the second of them after a blank line
C27_Witness ==
    /\ WalkReturned
    /\ \E i \in 1..Len(walk.lines) : walk.lines[i].blank
    /\ Len(walk.visited) = 3
    /\ walk.tree # None /\ walk.tree.v.node_type # "Query"
    /\ Len(walk.tree.v.children) = 2

\* the walk gives the tree that build_tree gives
WalkGivesBuildTree ==
    /\ WalkReturned =>
          TrinoParser__build_plan_tree(walk.text) = [raised |-> FALSE, tree |-> walk.tree]
    /\ walk.status = "raised" => TrinoParser__build_plan_tree(walk.text).raised

----------------------------------------------------------------------------
(* The snippets of a user in the key-value store.                          *)

EntriesOf(u) == Matching(RESOURCE_NAME, u)

\* C28: whatever the order and interleaving of the save_snippets requests,
\* two first saves of one user at the same time included, the store holds
\* at most one editor_snippets entry per user.
C28_AtMostOneEntryPerUser ==
    reqs # <<>> => \A u \in Users : Cardinality(EntriesOf(u)) <= 1

\* request r was answered
Answered(r) == reqs[r].pc = "done" /\ reqs[r].response # None

\* what the user of request r saved last, [] when the user never saved
LastSaved(r) ==
    IF saved[reqs[r].user_id.v] = None THEN <<>> ELSE saved[reqs[r].user_id.v].v

\* C29: get_snippets of an authenticated user answers with the snippets of
\* that user's last save answered 200, whatever other users saved, and
\* with the empty list when the user never saved; a request without an
\* authenticated user is answered 401 and does not call the store.
C29_GetReturnsOwnLastSave ==
    \A r \in 1..Len(reqs) :
        Answered(r) =>
            /\ reqs[r].user_id = None =>
                  /\ reqs[r].response.v.status = 401
                  /\ ~reqs[r].touched
            /\ reqs[r].user_id # None => reqs[r].response.v.status \in {200, 500}
            /\ (r = Len(reqs) /\ reqs[r].op = "get" /\ reqs[r].response.v.status = 200) =>
                  reqs[r].response.v.snippets = Some(LastSaved(r))

\* user 1 reads its two snippets after user 2 saved another list
C29_Witness ==
    /\ Len(reqs) = 3 /\ Answered(3)
    /\ reqs[3].op = "get" /\ reqs[3].user_id = Some(1)
    /\ reqs[3].response.v.status = 200
    /\ reqs[3].response.v.snippets = Some(<<"for", "log">>)
    /\ reqs[2].op = "save" /\ reqs[2].user_id = Some(2)
    /\ saved[2] = Some(<<"log">>)
    /\ Len(store) = 2

\* requests handled one at a time leave one entry per user
OneEntryPerUserWhenSerial == \A u \in Users : Cardinality(EntriesOf(u)) <= 1

====
